---- MODULE Spec2Model ----
(***************************************************************************)
(* Model of the IMDb ratings visualizer (src/app/page.tsx): the CSV row    *)
(* normalizer, the filter, the table view (sort and pagination), the CSV   *)
(* loaders and the poster effect of the App component.                     *)
(*                                                                         *)
(* Text is modelled as a sequence of one-character strings, so that the    *)
(* regular-expression stripping, splitting, trimming and searching of the  *)
(* code are computed character by character.  A number is modelled as an   *)
(* integer count of 1/Scale units (a decimal fraction with MaxStrLen       *)
(* fractional digits), which is exact for every input of at most MaxStrLen *)
(* characters.                                                             *)
(***************************************************************************)
EXTENDS Integers, Sequences, FiniteSets, TLC

VARIABLES
    \* ---- React state of App (page.tsx:70-93) ----
    rawRows, isLoading, error,
    q, minYear, maxYear, minYourRating, titleType, genreFilter,
    sortKey, sortDir, pageSize, page,
    posterCache, csvUrl,
    \* ---- useMemo cells of App ----
    rows,          \* the canonical records of rawRows (page.tsx:128)
    filtered,      \* the records of rows the filter accepts (page.tsx:156)
    \* ---- environment of the component ----
    omdbKey,       \* whether process.env.NEXT_PUBLIC_OMDB_KEY is set
    savedUrl,      \* localStorage["ratings_source_url"]; <<>> when not set
    loads,         \* CSV loads in flight (file parses and URL fetches)
    posterReqs,    \* poster requests in flight, one record per effect run
    requested,     \* history: how many requests were sent per title id
    pending,       \* effects scheduled by the last commit and not yet run
    events,        \* number of user events so far
    ran,           \* history: the effects that acted in the last effect run
    lastStarted,   \* history: the CSV load that was started last
    \* ---- harness for the pure functions ----
    fn, arg, res

appVars == <<rawRows, isLoading, error, q, minYear, maxYear, minYourRating,
             titleType, genreFilter, sortKey, sortDir, pageSize, page,
             posterCache, csvUrl, rows, filtered, omdbKey, savedUrl, loads,
             posterReqs, requested, pending, events, ran, lastStarted>>
pureVars == <<fn, arg, res>>
vars == <<appVars, pureVars>>

\* ------------------------------------------------------------------------
\* Bounds of the model
\* ------------------------------------------------------------------------
\* Longest text enumerated as an input of parseNumber.
MaxStrLen == 3
\* Number of user events (clicks, edits, drops, pastes) of a session.
MaxEvents == 2

\* ------------------------------------------------------------------------
\* Text helpers
\* ------------------------------------------------------------------------
Digits == {"0", "1", "2", "3", "4", "5", "6", "7", "8", "9"}

DigitVal(c) ==
    CASE c = "0" -> 0 [] c = "1" -> 1 [] c = "2" -> 2 [] c = "3" -> 3
      [] c = "4" -> 4 [] c = "5" -> 5 [] c = "6" -> 6 [] c = "7" -> 7
      [] c = "8" -> 8 [] c = "9" -> 9

DigitChar(d) == <<"0", "1", "2", "3", "4", "5", "6", "7", "8", "9">>[d + 1]

RECURSIVE Pow10(_)
Pow10(n) == IF n = 0 THEN 1 ELSE 10 * Pow10(n - 1)

\* Numbers are counted in units of 1/Scale.
Scale == Pow10(MaxStrLen)

\* An optional text: the result of reading a key of a raw row.
Undefined == [def |-> FALSE, s |-> <<>>]
Def(s) == [def |-> TRUE, s |-> s]

\* A nullable number: null, NaN, or a finite value v (in 1/Scale units).
Null == [kind |-> "null", v |-> 0]
NaN == [kind |-> "nan", v |-> 0]
Num(n) == [kind |-> "num", v |-> n]
Whole(n) == Num(n * Scale)
\* Number.isFinite
IsFinite(x) == x.kind = "num"

\* String(i) for a natural number i.
RECURSIVE StringOf(_)
StringOf(i) ==
    IF i < 10 THEN <<DigitChar(i)>>
    ELSE StringOf(i \div 10) \o <<DigitChar(i % 10)>>

\* The value of a run of decimal digits.
RECURSIVE DigitsValue(_)
DigitsValue(s) ==
    IF s = <<>> THEN 0
    ELSE 10 * DigitsValue(SubSeq(s, 1, Len(s) - 1)) + DigitVal(s[Len(s)])

\* The value, in 1/Scale units, of the fractional digits s.
RECURSIVE FracValue(_, _)
FracValue(s, unit) ==
    IF s = <<>> \/ unit = 0 THEN 0
    ELSE DigitVal(s[1]) * unit + FracValue(Tail(s), unit \div 10)

Count(s, c) == Cardinality({i \in 1..Len(s) : s[i] = c})

IndexOf(s, c) ==
    IF \E i \in 1..Len(s) : s[i] = c
    THEN CHOOSE i \in 1..Len(s) : s[i] = c /\ \A j \in 1..(i - 1) : s[j] # c
    ELSE 0

\* String.prototype.toLowerCase over the letters the model uses.
LowerChar(c) ==
    CASE c = "A" -> "a" [] c = "B" -> "b" [] c = "D" -> "d" [] c = "N" -> "n"
      [] c = "U" -> "u" [] OTHER -> c
toLowerCase(s) == [i \in 1..Len(s) |-> LowerChar(s[i])]

\* String.prototype.trim
RECURSIVE trimStart(_)
trimStart(s) == IF s # <<>> /\ s[1] = " " THEN trimStart(Tail(s)) ELSE s
RECURSIVE trimEnd(_)
trimEnd(s) ==
    IF s # <<>> /\ s[Len(s)] = " " THEN trimEnd(SubSeq(s, 1, Len(s) - 1)) ELSE s
trim(s) == trimEnd(trimStart(s))

\* String.prototype.includes
includes(s, sub) ==
    \E i \in 1..(Len(s) - Len(sub) + 1) : SubSeq(s, i, i + Len(sub) - 1) = sub

\* String.prototype.split(",")
RECURSIVE split(_)
split(s) ==
    LET i == IndexOf(s, ",")
    IN  IF i = 0 THEN <<s>>
        ELSE <<SubSeq(s, 1, i - 1)>> \o split(SubSeq(s, i + 1, Len(s)))

\* ------------------------------------------------------------------------
\* parseNumber (page.tsx:18-23)
\* ------------------------------------------------------------------------
\* x.replace(/[^0-9.\-]/g, "")
StripNonNumeric(s) == SelectSeq(s, LAMBDA c : c \in Digits \cup {".", "-"})

\* Whether a text made of digits, "." and "-" is a decimal literal of
\* JavaScript: an optional sign, then digits with at most one ".", and at
\* least one digit.
IsDecimalLiteral(s) ==
    LET body == IF s # <<>> /\ s[1] = "-" THEN Tail(s) ELSE s
    IN  /\ Count(body, "-") = 0
        /\ Count(body, ".") <= 1
        /\ \E i \in 1..Len(body) : body[i] \in Digits

DecimalValue(s) ==
    LET neg == s # <<>> /\ s[1] = "-"
        body == IF neg THEN Tail(s) ELSE s
        dot == IndexOf(body, ".")
        ip == IF dot = 0 THEN body ELSE SubSeq(body, 1, dot - 1)
        fp == IF dot = 0 THEN <<>> ELSE SubSeq(body, dot + 1, Len(body))
        mag == DigitsValue(ip) * Scale + FracValue(fp, Scale \div 10)
    IN  IF neg THEN 0 - mag ELSE mag

\* Number(s) for a text s made of digits, "." and "-": the empty text
\* converts to 0, a decimal literal to its value, anything else to NaN.
ToNumber(s) ==
    IF s = <<>> THEN Num(0)
    ELSE IF IsDecimalLiteral(s) THEN Num(DecimalValue(s))
    ELSE NaN

\* parseNumber(x); x is a text of a parsed CSV or of an input element, or
\* undefined (the typeof x === "number" branch is never taken for them).
parseNumber(x) ==
    IF ~x.def THEN Null
    ELSE LET v == ToNumber(StripNonNumeric(x.s))
         IN  IF IsFinite(v) THEN v ELSE Null

\* parseNumber of the earlier version of the component kept in the
\* repository, which returns null for a text that strips to nothing.
parseNumberGuarded(x) ==
    IF ~x.def THEN Null
    ELSE LET cleaned == StripNonNumeric(x.s)
         IN  IF cleaned = <<>> THEN Null
             ELSE LET v == ToNumber(cleaned)
                  IN  IF IsFinite(v) THEN v ELSE Null

\* ------------------------------------------------------------------------
\* parseDateMaybe (page.tsx:24)
\* ------------------------------------------------------------------------
IsLeap(y) == (y % 4 = 0 /\ y % 100 # 0) \/ y % 400 = 0

DaysInMonth(y, m) ==
    IF m = 2 THEN (IF IsLeap(y) THEN 29 ELSE 28)
    ELSE IF m \in {4, 6, 9, 11} THEN 30 ELSE 31

\* The number of days from 1970-01-01 to the civil date y-m-d.
DaysFromCivil(y, m, d) ==
    LET yy == IF m <= 2 THEN y - 1 ELSE y
        era == yy \div 400
        yoe == yy - era * 400
        mp == IF m > 2 THEN m - 3 ELSE m + 9
        doy == (153 * mp + 2) \div 5 + d - 1
        doe == yoe * 365 + yoe \div 4 - yoe \div 100 + doy
    IN  era * 146097 + doe - 719468

AllDigits(s) == \A i \in 1..Len(s) : s[i] \in Digits

\* new Date(s) for the date format of the IMDb export, YYYY-MM-DD; any other
\* text is an invalid date.  A date is held as its day number.
ParseIsoDate(s) ==
    IF /\ Len(s) = 10
       /\ s[5] = "-" /\ s[8] = "-"
       /\ AllDigits(SubSeq(s, 1, 4) \o SubSeq(s, 6, 7) \o SubSeq(s, 9, 10))
    THEN LET y == DigitsValue(SubSeq(s, 1, 4))
             m == DigitsValue(SubSeq(s, 6, 7))
             d == DigitsValue(SubSeq(s, 9, 10))
         IN  IF m \in 1..12 /\ d \in 1..DaysInMonth(y, m)
             THEN Num(DaysFromCivil(y, m, d))
             ELSE NaN
    ELSE NaN

parseDateMaybe(x) ==
    IF ~x.def \/ x.s = <<>> THEN Null
    ELSE LET d == ParseIsoDate(x.s)
         IN  IF d.kind = "nan" THEN Null ELSE d

\* ------------------------------------------------------------------------
\* splitGenres (page.tsx:25) and imdbIdFromUrl (page.tsx:44)
\* ------------------------------------------------------------------------
splitGenres(x) ==
    IF ~x.def \/ x.s = <<>> THEN <<>>
    ELSE LET parts == split(x.s)
             trimmed == [i \in 1..Len(parts) |-> trim(parts[i])]
         IN  SelectSeq(trimmed, LAMBDA g : g # <<>>)

\* The length of the run of digits of s that starts at position i.
RECURSIVE DigitRun(_, _)
DigitRun(s, i) ==
    IF i <= Len(s) /\ s[i] \in Digits THEN 1 + DigitRun(s, i + 1) ELSE 0

\* /tt\d+/.exec(url): the first "tt" followed by digits, with all the digits
\* that follow; Undefined stands for the null of no match.
imdbIdFromUrl(url) ==
    LET starts == {i \in 1..Len(url) :
                      /\ i + 2 <= Len(url)
                      /\ url[i] = "t" /\ url[i + 1] = "t"
                      /\ url[i + 2] \in Digits}
    IN  IF starts = {} THEN Undefined
        ELSE LET i == CHOOSE k \in starts : \A j \in starts : k <= j
             IN  Def(SubSeq(url, i, i + 1 + DigitRun(url, i + 2)))

\* ------------------------------------------------------------------------
\* Row normalizer: rows (page.tsx:128-143)
\* ------------------------------------------------------------------------
\* A raw row is a function from the column names it has to their texts.
\* r[k1] ?? r[k2] ?? ...: the value of the first key that the row has.
RECURSIVE Coalesce(_, _)
Coalesce(r, keys) ==
    IF keys = <<>> THEN Undefined
    ELSE IF keys[1] \in DOMAIN r THEN Def(r[keys[1]])
    ELSE Coalesce(r, Tail(keys))

\* r[k1] ?? ... ?? dflt
CoalesceOr(r, keys, dflt) ==
    LET x == Coalesce(r, keys) IN IF x.def THEN x.s ELSE dflt

YourRatingKeys == <<"Your Rating", "your rating", "rating">>
ImdbRatingKeys == <<"IMDb Rating", "imdb rating">>
RuntimeKeys == <<"Runtime (mins)", "runtime">>
YearKeys == <<"Year", "year">>
DateRatedKeys == <<"Date Rated", "date rated", "rated_at">>
ReleaseDateKeys == <<"Release Date", "release date">>
TitleKeys == <<"Title", "title">>
TypeKeys == <<"Title Type", "title type", "type">>
UrlKeys == <<"URL", "url">>
GenresKeys == <<"Genres", "genres">>
DirectorsKeys == <<"Directors", "directors">>
TconstKeys == <<"Const", "const">>

\* The canonical record of the raw row r at (0-based) index i.  The source
\* columns the record also carries (...r) are kept in raw.
normalize(r, i) ==
    [ raw |-> r,
      __title |-> CoalesceOr(r, TitleKeys, <<>>),
      __type |-> CoalesceOr(r, TypeKeys, <<>>),
      __url |-> CoalesceOr(r, UrlKeys, <<>>),
      __genres |-> splitGenres(Def(CoalesceOr(r, GenresKeys, <<>>))),
      __directors |-> CoalesceOr(r, DirectorsKeys, <<>>),
      __tconst |-> CoalesceOr(r, TconstKeys, StringOf(i)),
      __yourRating |-> parseNumber(Coalesce(r, YourRatingKeys)),
      __imdbRating |-> parseNumber(Coalesce(r, ImdbRatingKeys)),
      __runtime |-> parseNumber(Coalesce(r, RuntimeKeys)),
      __year |-> parseNumber(Coalesce(r, YearKeys)),
      __dateRated |-> parseDateMaybe(Coalesce(r, DateRatedKeys)),
      __releaseDate |-> parseDateMaybe(Coalesce(r, ReleaseDateKeys)) ]

rowsOf(raw) == [i \in 1..Len(raw) |-> normalize(raw[i], i - 1)]

\* ------------------------------------------------------------------------
\* Filter: filtered (page.tsx:156-166)
\* ------------------------------------------------------------------------
\* f is the filter state [q, minYear, maxYear, minYourRating, titleType,
\* genreFilter]; the numbers of f are in 1/Scale units.
All == <<"a", "l", "l">>

\* yearOk without the Number.isFinite guard.
yearOkStrict(r, f) == r.__year.v >= f.minYear /\ r.__year.v <= f.maxYear

yearOk(r, f) ==
    ~IsFinite(r.__year) \/ (r.__year.v >= f.minYear /\ r.__year.v <= f.maxYear)

typeOk(r, f) == f.titleType = All \/ r.__type = f.titleType

\* yourOk without the Number.isFinite guard.
yourOkStrict(r, f) == r.__yourRating.v >= f.minYourRating

yourOk(r, f) ==
    ~IsFinite(r.__yourRating) \/ r.__yourRating.v >= f.minYourRating

textOk(r, f) ==
    LET qLower == toLowerCase(trim(f.q))
    IN  qLower = <<>> \/ includes(toLowerCase(r.__title), qLower)

\* genresOk with every requested genre demanded of the record.
genresOkEvery(r, f) ==
    \/ Len(f.genreFilter) = 0
    \/ \A j \in 1..Len(f.genreFilter) :
           \E i \in 1..Len(r.__genres) : f.genreFilter[j] = r.__genres[i]

genresOk(r, f) ==
    \/ Len(f.genreFilter) = 0
    \/ \E i \in 1..Len(r.__genres) :
           \E j \in 1..Len(f.genreFilter) : f.genreFilter[j] = r.__genres[i]

matches(r, f) ==
    yearOk(r, f) /\ typeOk(r, f) /\ yourOk(r, f) /\ textOk(r, f) /\ genresOk(r, f)

filteredOf(rs, f) == SelectSeq(rs, LAMBDA r : matches(r, f))

\* The filter state of a fresh component (page.tsx:75-80).
DefaultFilter ==
    [ q |-> <<>>, minYear |-> 1900 * Scale, maxYear |-> 2100 * Scale,
      minYourRating |-> 0, titleType |-> All, genreFilter |-> <<>> ]

\* ------------------------------------------------------------------------
\* Table view: sorted, totalPages, pageRows (page.tsx:248-268)
\* ------------------------------------------------------------------------
SortKeys == {"title", "year", "your", "imdb", "date"}

\* UTF-16 code units of the characters the model uses.
CharCode(c) ==
    CASE c = " " -> 32 [] c = "," -> 44 [] c = "-" -> 45 [] c = "." -> 46
      [] c = "/" -> 47 [] c \in Digits -> 48 + DigitVal(c)
      [] c = "A" -> 65 [] c = "B" -> 66 [] c = "D" -> 68 [] c = "N" -> 78
      [] c = "U" -> 85 [] c = "a" -> 97 [] c = "b" -> 98 [] c = "d" -> 100
      [] c = "l" -> 108 [] c = "m" -> 109 [] c = "n" -> 110 [] c = "s" -> 115
      [] c = "t" -> 116 [] c = "u" -> 117

\* s < t for two texts.
RECURSIVE TextLess(_, _)
TextLess(s, t) ==
    IF t = <<>> THEN FALSE
    ELSE IF s = <<>> THEN TRUE
    ELSE IF s[1] = t[1] THEN TextLess(Tail(s), Tail(t))
    ELSE CharCode(s[1]) < CharCode(t[1])

\* A comparison in which null stands for +Infinity.
NumLessNullHigh(a, b) == IsFinite(a) /\ (~IsFinite(b) \/ a.v < b.v)

\* va < vb for two nullable numbers, null standing for -Infinity.
NumLess(a, b) == IsFinite(b) /\ (~IsFinite(a) \/ a.v < b.v)

\* va < vb of cmp for the sort key.
KeyLess(a, b, key) ==
    CASE key = "title" -> TextLess(toLowerCase(a.__title), toLowerCase(b.__title))
      [] key = "year" -> NumLess(a.__year, b.__year)
      [] key = "your" -> NumLess(a.__yourRating, b.__yourRating)
      [] key = "imdb" -> NumLess(a.__imdbRating, b.__imdbRating)
      [] OTHER -> NumLess(a.__dateRated, b.__dateRated)

\* cmp(a, b) of sorted: -1, 0 or 1.
cmp(a, b, key, dir) ==
    IF KeyLess(a, b, key) THEN (IF dir = "asc" THEN 0 - 1 ELSE 1)
    ELSE IF KeyLess(b, a, key) THEN (IF dir = "asc" THEN 1 ELSE 0 - 1)
    ELSE 0

\* Array.prototype.sort with cmp, a stable sort: the record at index i goes
\* after the records that compare lower and the equal ones that precede it.
sortedOf(rs, key, dir) ==
    LET n == Len(rs)
        before(i) == {j \in 1..n : \/ cmp(rs[j], rs[i], key, dir) < 0
                                   \/ cmp(rs[j], rs[i], key, dir) = 0 /\ j < i}
        place == SubSeq([i \in 1..n |-> Cardinality(before(i)) + 1], 1, n)
    IN  [p \in 1..n |-> rs[CHOOSE i \in 1..n : place[i] = p]]

Max(a, b) == IF a >= b THEN a ELSE b
Min(a, b) == IF a <= b THEN a ELSE b

\* Math.max(1, Math.ceil(n / size))
totalPagesOf(n, size) == Max(1, (n + size - 1) \div size)

\* sorted.slice(pageStart, pageStart + pageSize)
pageRowsOf(srt, pg, size) ==
    SubSeq(srt, (pg - 1) * size + 1, Min(pg * size, Len(srt)))

\* ------------------------------------------------------------------------
\* uniqueDays, longestStreak, longestGap (page.tsx:31-43)
\* ------------------------------------------------------------------------
\* A Date is held here as its getTime() in hours.  A time zone gives the
\* hours local time is behind UTC in winter, and the first and the last
\* local day whose midnight is in daylight saving time (none when
\* dstFirst > dstLast); the getters of Date and new Date(y, m, d) read and
\* build local time.
HoursPerDay == 24

Utc == [behind |-> 0, dstFirst |-> 1, dstLast |-> 0]
\* US Eastern time with its daylight saving time of 2024.
Eastern ==
    [behind |-> 5, dstFirst |-> DaysFromCivil(2024, 3, 11),
     dstLast |-> DaysFromCivil(2024, 11, 3)]

\* getTime() of the Date parsed from the date-only text of day number d
\* (it is read as midnight UTC).
TimeOfDay(d) == HoursPerDay * d

\* The hours local time is behind UTC at the midnight of local day.
BehindAt(tz, day) ==
    tz.behind - (IF day >= tz.dstFirst /\ day <= tz.dstLast THEN 1 ELSE 0)

\* new Date(y, m, d).getTime() for the local day number day.
LocalMidnight(tz, day) == HoursPerDay * day + BehindAt(tz, day)

\* The local day (getFullYear, getMonth, getDate) of the instant t: the
\* latest local day whose midnight is not after t.
LocalDay(tz, t) ==
    LET guess == t \div HoursPerDay
    IN  IF LocalMidnight(tz, guess) <= t THEN guess ELSE guess - 1

\* The members of a set of numbers in ascending order.
RECURSIVE Ascending(_)
Ascending(S) ==
    IF S = {} THEN <<>>
    ELSE LET m == CHOOSE x \in S : \A y \in S : x <= y
         IN  <<m>> \o Ascending(S \ {m})

\* uniqueDays(dates): the local midnights of the dates, without repeats,
\* ascending.
uniqueDays(tz, dates) ==
    Ascending({LocalMidnight(tz, LocalDay(tz, dates[i])) : i \in 1..Len(dates)})

\* The loop of longestStreak from index i (1-based) on.
RECURSIVE StreakLoop(_, _, _, _, _)
StreakLoop(days, i, best, curStart, curLen) ==
    IF i > Len(days)
    THEN IF curLen > best.len
         THEN [len |-> curLen, start |-> Num(curStart), end |-> Num(days[Len(days)])]
         ELSE best
    ELSE IF days[i] - days[i - 1] = HoursPerDay
         THEN StreakLoop(days, i + 1, best, curStart, curLen + 1)
         ELSE StreakLoop(days, i + 1,
                         IF curLen > best.len
                         THEN [len |-> curLen, start |-> Num(curStart),
                               end |-> Num(days[i - 1])]
                         ELSE best,
                         days[i], 1)

longestStreak(tz, dates) ==
    LET days == uniqueDays(tz, dates)
    IN  IF days = <<>> THEN [len |-> 0, start |-> Null, end |-> Null]
        ELSE StreakLoop(days, 2,
                        [len |-> 1, start |-> Num(days[1]), end |-> Num(days[1])],
                        days[1], 1)

\* A rounding of the day count that drops a part of a day.
RoundDaysDown(h) == h \div HoursPerDay

\* Math.round(h / 24) for a number of hours h >= 0.
RoundDays(h) == (2 * h + HoursPerDay) \div (2 * HoursPerDay)

\* The loop of longestGap from index i (1-based) on.
RECURSIVE GapLoop(_, _, _)
GapLoop(days, i, best) ==
    IF i > Len(days) THEN best
    ELSE LET gap == RoundDays(days[i] - days[i - 1])
         IN  GapLoop(days, i + 1,
                     IF gap > best.days
                     THEN [days |-> gap, start |-> Num(days[i - 1]), end |-> Num(days[i])]
                     ELSE best)

longestGap(tz, dates) ==
    LET days == uniqueDays(tz, dates)
    IN  IF Len(days) < 2 THEN [days |-> 0, start |-> Null, end |-> Null]
        ELSE GapLoop(days, 2, [days |-> 0, start |-> Num(days[1]), end |-> Num(days[2])])

\* ------------------------------------------------------------------------
\* facts (page.tsx:169-206) and ratingHistogram (page.tsx:215-219)
\* ------------------------------------------------------------------------
\* A fact that is null.
NoFact == [def |-> FALSE]

Abs(x) == IF x < 0 THEN 0 - x ELSE x

\* Whether a fact that strictly compares to the one kept is tried against
\* one with the same value.
ReplacesOnTie(acc, v) == ~acc.def \/ v >= acc.v

\* !acc || v > acc.v: the test that replaces the fact kept so far.
Replaces(acc, v) == ~acc.def \/ v > acc.v

\* The forEach of facts.disagree over rs from index i on.
RECURSIVE DisagreeLoop(_, _, _)
DisagreeLoop(rs, i, acc) ==
    IF i > Len(rs) THEN acc
    ELSE LET r == rs[i]
         IN  IF ~IsFinite(r.__yourRating) \/ ~IsFinite(r.__imdbRating)
             THEN DisagreeLoop(rs, i + 1, acc)
             ELSE LET delta == Abs(r.__yourRating.v - r.__imdbRating.v)
                  IN  DisagreeLoop(rs, i + 1,
                         IF Replaces(acc, delta)
                         THEN [def |-> TRUE, title |-> r.__title,
                               your |-> r.__yourRating.v, imdb |-> r.__imdbRating.v,
                               v |-> delta]
                         ELSE acc)

\* facts.disagree; the field v is its delta.
disagree(rs) == DisagreeLoop(rs, 1, NoFact)

\* The names of the Directors text of r: split(","), trim, filter(Boolean).
directorsOf(r) == splitGenres(Def(r.__directors))

\* dirMap after the names ds (from index k on) of a record with the finite
\* rating v: a Map held as the sequence of its entries in insertion order.
RECURSIVE AddNames(_, _, _, _)
AddNames(map, ds, k, v) ==
    IF k > Len(ds) THEN map
    ELSE LET at == {j \in 1..Len(map) : map[j].director = ds[k]}
         IN  AddNames(IF at = {}
                      THEN Append(map, [director |-> ds[k], sum |-> v, n |-> 1])
                      ELSE LET j == CHOOSE x \in at : TRUE
                           IN  [map EXCEPT ![j] = [director |-> ds[k],
                                                   sum |-> map[j].sum + v,
                                                   n |-> map[j].n + 1]],
                      ds, k + 1, v)

\* The forEach that fills dirMap, over rs from index i on; a name of a
\* record without a finite rating is not entered.
RECURSIVE DirMapLoop(_, _, _)
DirMapLoop(rs, i, map) ==
    IF i > Len(rs) THEN map
    ELSE DirMapLoop(rs, i + 1,
                    IF IsFinite(rs[i].__yourRating)
                    THEN AddNames(map, directorsOf(rs[i]), 1, rs[i].__yourRating.v)
                    ELSE map)

dirMap(rs) == DirMapLoop(rs, 1, <<>>)

\* The least number of rated entries of a director that is reported.
MinTitles == 3

\* A forEach in which an entry with the same average replaces the one kept.
RECURSIVE TopLoopLast(_, _, _)
TopLoopLast(map, j, acc) ==
    IF j > Len(map) THEN acc
    ELSE LET m == map[j]
         IN  TopLoopLast(map, j + 1,
                         IF m.n >= MinTitles /\ (~acc.def \/ m.sum * acc.n >= acc.sum * m.n)
                         THEN [def |-> TRUE, director |-> m.director, sum |-> m.sum, n |-> m.n]
                         ELSE acc)

\* dirMap.forEach of facts.topDirector from entry j on.  avg is held as
\* the fraction sum / n, and avg > topDirector.avg is decided on fractions.
RECURSIVE TopLoop(_, _, _)
TopLoop(map, j, acc) ==
    IF j > Len(map) THEN acc
    ELSE LET m == map[j]
         IN  TopLoop(map, j + 1,
                     IF m.n >= MinTitles /\ (~acc.def \/ m.sum * acc.n > acc.sum * m.n)
                     THEN [def |-> TRUE, director |-> m.director, sum |-> m.sum, n |-> m.n]
                     ELSE acc)

\* facts.topDirector
topDirector(rs) == TopLoop(dirMap(rs), 1, NoFact)

\* The civil date [y, m, d] of a day number (the inverse of DaysFromCivil).
CivilFromDays(days) ==
    LET z == days + 719468
        era == z \div 146097
        doe == z - era * 146097
        yoe == (doe - doe \div 1460 + doe \div 36524 - doe \div 146096) \div 365
        doy == doe - (365 * yoe + yoe \div 4 - yoe \div 100)
        mp == (5 * doy + 2) \div 153
        m == IF mp < 10 THEN mp + 3 ELSE mp - 9
    IN  [y |-> yoe + era * 400 + (IF m <= 2 THEN 1 ELSE 0), m |-> m,
         d |-> doy - (153 * mp + 2) \div 5 + 1]

\* getFullYear() and getMonth() + 1 of the instant t.
LocalYearMonth(tz, t) ==
    LET c == CivilFromDays(LocalDay(tz, t)) IN [y |-> c.y, m |-> c.m]

\* `${y}-${String(m).padStart(2, "0")}`
MonthKey(ym) ==
    StringOf(ym.y) \o <<"-">>
       \o (IF ym.m < 10 THEN <<"0">> \o StringOf(ym.m) ELSE StringOf(ym.m))

\* monthMap.get(key) || 0: the records of rs whose dateRated has the key.
MonthCount(tz, rs, key) ==
    Cardinality({i \in 1..Len(rs) :
                    /\ IsFinite(rs[i].__dateRated)
                    /\ MonthKey(LocalYearMonth(tz, TimeOfDay(rs[i].__dateRated.v))) = key})

\* The number of months of the activity series.
WindowMonths == 24

\* A window that ends with the month before the current one.
monthBackShifted(tz, now, i) ==
    LET ym == LocalYearMonth(tz, now)
        total == ym.y * 12 + (ym.m - 1) - i - 1
    IN  [y |-> total \div 12, m |-> (total % 12) + 1]

\* new Date(now.getFullYear(), now.getMonth() - i, 1): its year and month.
monthBack(tz, now, i) ==
    LET ym == LocalYearMonth(tz, now)
        total == ym.y * 12 + (ym.m - 1) - i
    IN  [y |-> total \div 12, m |-> (total % 12) + 1]

\* facts.months: for (let i = 23; i >= 0; i--) months.push(...)
months(tz, now, rs) ==
    [ k \in 1..WindowMonths |->
        LET key == MonthKey(monthBack(tz, now, WindowMonths - k))
        IN  [month |-> key, count |-> MonthCount(tz, rs, key)] ]

\* The number of buckets of the rating histogram.
Buckets == 10

\* A range test that leaves out the lowest rating.
inBucketsAbove(v) == v > Scale /\ v <= Buckets * Scale

\* rating >= 1 && rating <= 10
inBuckets(v) == v >= Scale /\ v <= Buckets * Scale

\* The records whose rating is finite and inside the range.
Binned(rs) ==
    {i \in 1..Len(rs) : IsFinite(rs[i].__yourRating) /\ inBuckets(rs[i].__yourRating.v)}

\* bins[rating - 1] of a rating that is not a whole number is undefined, and
\* the increment of its count throws a TypeError.
Threw == [threw |-> TRUE]

ratingHistogram(rs) ==
    IF \E i \in Binned(rs) : rs[i].__yourRating.v % Scale # 0 THEN Threw
    ELSE [ k \in 1..Buckets |->
             [bucket |-> k,
              count |-> Cardinality({i \in Binned(rs) :
                                       rs[i].__yourRating.v \div Scale - 1 = k - 1})] ]

\* ------------------------------------------------------------------------
\* facts as a whole (page.tsx:169-206) and the chart data (page.tsx:208-245)
\* ------------------------------------------------------------------------
\* The quotient a / b of two numbers, held exactly; 0 / 0 is NaN.
Ratio(a, b) == [num |-> a, den |-> b]

RECURSIVE Sum(_)
\* reduce((a, b) => a + b, 0)
Sum(s) == IF s = <<>> THEN 0 ELSE s[1] + Sum(Tail(s))

\* xs.filter(Number.isFinite), as the values of the finite members.
FiniteValues(xs) ==
    LET s == SelectSeq(xs, IsFinite) IN [i \in 1..Len(s) |-> s[i].v]

\* A mean without the test for an empty list.
avgOfUnguarded(vals) == Ratio(Sum(vals), Len(vals))

\* vals.length ? vals.reduce((a, b) => a + b, 0) / vals.length : null
avgOf(vals) == IF Len(vals) # 0 THEN Ratio(Sum(vals), Len(vals)) ELSE Null

\* filtered.map(r => r.__dateRated).filter(Boolean), as instants.
datesOf(rs) ==
    LET s == SelectSeq(rs, LAMBDA r : r.__dateRated # Null)
    IN  [i \in 1..Len(s) |-> TimeOfDay(s[i].__dateRated.v)]

DayNames == <<"Sun", "Mon", "Tue", "Wed", "Thu", "Fri", "Sat">>

\* getDay() of the instant t: 0 for Sunday; day number 0 is a Thursday.
getDay(tz, t) == (LocalDay(tz, t) + 4) % 7

\* facts.dowAvg
dowAvg(tz, rs) ==
    [ d \in 1..7 |->
        LET s == SelectSeq(rs, LAMBDA r :
                     /\ r.__dateRated # Null /\ IsFinite(r.__yourRating)
                     /\ getDay(tz, TimeOfDay(r.__dateRated.v)) = d - 1)
            sum == Sum([i \in 1..Len(s) |-> s[i].__yourRating.v])
        IN  [dow |-> DayNames[d],
             avg |-> IF Len(s) # 0 THEN Ratio(sum, Len(s)) ELSE Ratio(0, 1),
             n |-> Len(s)] ]

\* The value of the facts memo for the filtered records rs.
facts(tz, now, rs) ==
    [ n |-> Len(rs),
      avgYour |-> avgOf(FiniteValues([i \in 1..Len(rs) |-> rs[i].__yourRating])),
      avgImdb |-> avgOf(FiniteValues([i \in 1..Len(rs) |-> rs[i].__imdbRating])),
      totalHours |-> Ratio(Sum(FiniteValues([i \in 1..Len(rs) |-> rs[i].__runtime])), 60),
      streak |-> longestStreak(tz, datesOf(rs)),
      gap |-> longestGap(tz, datesOf(rs)),
      disagree |-> disagree(rs),
      topDirector |-> topDirector(rs),
      dowAvg |-> dowAvg(tz, rs),
      months |-> months(tz, now, rs) ]

\* s.sort((a, b) => key(a) - key(b)), a stable sort; keys[i] is the numeric
\* key of s[i].
SortBy(s, keys) ==
    LET n == Len(s)
        before(i) == {j \in 1..n : keys[j] < keys[i] \/ (keys[j] = keys[i] /\ j < i)}
        place == SubSeq([i \in 1..n |-> Cardinality(before(i)) + 1], 1, n)
    IN  [p \in 1..n |-> s[CHOOSE i \in 1..n : place[i] = p]]

\* timeSeries (page.tsx:209-213)
timeSeries(rs) ==
    LET s == SelectSeq(rs, LAMBDA r : r.__dateRated # Null /\ IsFinite(r.__yourRating))
        pts == [i \in 1..Len(s) |-> [x |-> TimeOfDay(s[i].__dateRated.v),
                                     your |-> s[i].__yourRating.v]]
    IN  SortBy(pts, [i \in 1..Len(pts) |-> pts[i].x])

\* yourVsImdb (page.tsx:221-224)
yourVsImdb(rs) ==
    LET s == SelectSeq(rs, LAMBDA r : IsFinite(r.__yourRating) /\ IsFinite(r.__imdbRating))
    IN  [i \in 1..Len(s) |-> [your |-> s[i].__yourRating.v, imdb |-> s[i].__imdbRating.v,
                              title |-> s[i].__title]]

\* runtimeVsYour (page.tsx:226-229)
runtimeVsYour(rs) ==
    LET s == SelectSeq(rs, LAMBDA r : IsFinite(r.__runtime) /\ IsFinite(r.__yourRating))
    IN  [i \in 1..Len(s) |-> [runtime |-> s[i].__runtime.v, your |-> s[i].__yourRating.v,
                              title |-> s[i].__title]]

\* byYearAvg (page.tsx:231-239): one entry per year of a record with a
\* year and a rating, in ascending order of the year.
byYearAvg(rs) ==
    LET s == SelectSeq(rs, LAMBDA r : IsFinite(r.__year) /\ IsFinite(r.__yourRating))
        years == Ascending({s[i].__year.v : i \in 1..Len(s)})
    IN  [k \in 1..Len(years) |->
            LET of == SelectSeq(s, LAMBDA r : r.__year.v = years[k])
            IN  [year |-> years[k],
                 avg |-> Ratio(Sum([i \in 1..Len(of) |-> of[i].__yourRating.v]), Len(of)),
                 n |-> Len(of)]]

\* The genres of all the records of rs, in the order of the forEach.
RECURSIVE genresOfAll(_)
genresOfAll(rs) == IF rs = <<>> THEN <<>> ELSE rs[1].__genres \o genresOfAll(Tail(rs))

\* The entries of the Map of genreCounts after the names gs from index k
\* on, in insertion order.
RECURSIVE CountLoop(_, _, _)
CountLoop(map, gs, k) ==
    IF k > Len(gs) THEN map
    ELSE LET at == {j \in 1..Len(map) : map[j].genre = gs[k]}
         IN  CountLoop(IF at = {}
                       THEN Append(map, [genre |-> gs[k], count |-> 1])
                       ELSE LET j == CHOOSE x \in at : TRUE
                            IN  [map EXCEPT ![j].count = @ + 1],
                       gs, k + 1)

\* The most genres the genre chart shows.
TopGenres == 15

\* genreCounts (page.tsx:241-245)
genreCounts(rs) ==
    LET entries == CountLoop(<<>>, genresOfAll(rs), 1)
        byCount == SortBy(entries, [i \in 1..Len(entries) |-> 0 - entries[i].count])
    IN  SubSeq(byCount, 1, Min(TopGenres, Len(byCount)))

\* The chart data of a render.
charts(rs) ==
    [ timeSeries |-> timeSeries(rs), ratingHistogram |-> ratingHistogram(rs),
      yourVsImdb |-> yourVsImdb(rs), runtimeVsYour |-> runtimeVsYour(rs),
      byYearAvg |-> byYearAvg(rs), genreCounts |-> genreCounts(rs) ]

\* ------------------------------------------------------------------------
\* CSV export: downloadCSVFromRows (page.tsx:27-30, 593)
\* ------------------------------------------------------------------------
\* The fields a canonical record has besides the columns of its row.
DerivedFields ==
    { "__title", "__type", "__url", "__genres", "__directors", "__tconst",
      "__yourRating", "__imdbRating", "__runtime", "__year", "__dateRated",
      "__releaseDate" }

\* Object.keys of the canonical record {...r, __title: ..., ...}.
KeysOf(r) == DOMAIN r.raw \cup DerivedFields

\* Papa.unparse(rows) of an array of objects: the columns of the file are
\* the keys of the first object; an empty array gives an empty file.
unparseFields(rs) == IF rs = <<>> THEN {} ELSE KeysOf(rs[1])

\* downloadCSVFromRows(filtered): the columns of the downloaded file.
downloadCSVFromRows(rs, f) == unparseFields(filteredOf(rs, f))

\* ------------------------------------------------------------------------
\* Inputs of a session: CSV sources, URLs, texts typed into the controls
\* ------------------------------------------------------------------------
Y1995 == <<"1", "9", "9", "5">>
Y2001 == <<"2", "0", "0", "1">>
Jan01 == <<"2", "0", "2", "4", "-", "0", "1", "-", "0", "1">>
Jan02 == <<"2", "0", "2", "4", "-", "0", "1", "-", "0", "2">>
UrlTt1 == <<"/", "t", "t", "1", "/">>
UrlTt2 == <<"/", "t", "t", "2", "/">>

\* A small export: two rows of the title tt1 and one row of tt2.
DataSmall ==
    << ("Title" :> <<"D", "u">>) @@ ("Year" :> Y1995) @@ ("Your Rating" :> <<"8">>)
         @@ ("URL" :> UrlTt1) @@ ("Title Type" :> <<"m">>)
         @@ ("Genres" :> <<"A", ",", " ", "B">>) @@ ("Date Rated" :> Jan02),
       ("Title" :> <<"a">>) @@ ("Year" :> Y2001) @@ ("Your Rating" :> <<"6">>)
         @@ ("URL" :> UrlTt1) @@ ("Title Type" :> <<"s">>)
         @@ ("Genres" :> <<"B">>) @@ ("Date Rated" :> Jan01),
       ("Title" :> <<"b">>) @@ ("Year" :> <<>>) @@ ("Your Rating" :> <<>>)
         @@ ("URL" :> UrlTt2) @@ ("Title Type" :> <<>>)
         @@ ("Genres" :> <<>>) @@ ("Date Rated" :> <<>>) >>

\* A large export: three pages at the default page size, with one title URL
\* on the first and on the last page.
BigLen == 205
DataBig ==
    [ i \in 1..BigLen |->
        ("Title" :> (IF i % 3 = 0 THEN <<"D", "u">> ELSE <<"a">>))
          @@ ("Year" :> (IF i % 2 = 0 THEN Y1995 ELSE Y2001))
          @@ ("URL" :> (IF i = 1 THEN UrlTt1 ELSE IF i = BigLen THEN UrlTt2 ELSE <<>>)) ]

\* What the parser could read of a malformed CSV (it reports errors too).
DataBad == << ("Title" :> <<"b", "a", "d">>) >>

\* Papa.parse(text, {header: true, skipEmptyLines: true}): data and errors.
Sources == {"small", "big", "bad"}
\* The CSV texts a URL may answer with.
UrlSources == Sources
ParseResult(src) ==
    CASE src = "small" -> [data |-> DataSmall, errors |-> FALSE]
      [] src = "big" -> [data |-> DataBig, errors |-> FALSE]
      [] src = "bad" -> [data |-> DataBad, errors |-> TRUE]

\* The files a user can pick or drop; "unreadable" cannot be read at all.
Files == {"big", "bad", "unreadable"}
\* The texts a user can paste, with text.includes(",").
PasteTexts == { [src |-> "small", comma |-> TRUE], [src |-> "bad", comma |-> TRUE],
                [src |-> "small", comma |-> FALSE] }
Urls == {<<"a">>, <<"b">>}
QueryTexts == {<<>>, <<"d", "u">>}
YearTexts == {<<"2", "0", "0", "0">>}
RatingTexts == {<<"7">>, <<>>}
PageSizes == {50, 100, 200}
PosterOutcomes == {"poster", "none", "fail"}

FetchErrorText == "Could not fetch CSV from that URL."
ParseErrorText == "Failed to parse CSV"

\* ------------------------------------------------------------------------
\* Derived values of a render
\* ------------------------------------------------------------------------
Filter ==
    [ q |-> q, minYear |-> minYear, maxYear |-> maxYear,
      minYourRating |-> minYourRating, titleType |-> titleType,
      genreFilter |-> genreFilter ]

\* Year bounds that do not follow the data.
allYearsOfWide(rs) == <<1900 * Scale, 2100 * Scale>>

\* allYears (page.tsx:146-149)
allYearsOf(rs) ==
    LET ys == {rs[i].__year.v : i \in {j \in 1..Len(rs) : IsFinite(rs[j].__year)}}
    IN  IF ys = {} THEN <<1900 * Scale, 2100 * Scale>>
        ELSE << CHOOSE y \in ys : \A z \in ys : y <= z,
                CHOOSE y \in ys : \A z \in ys : y >= z >>
allYears == allYearsOf(rows)

\* allTypes and allGenres (page.tsx:152-153), as sets
allTypes == {rows[i].__type : i \in 1..Len(rows)} \ {<<>>}
allGenres ==
    UNION {{rows[i].__genres[j] : j \in 1..Len(rows[i].__genres)} : i \in 1..Len(rows)}

totalPages == totalPagesOf(Len(filtered), pageSize)
pageStart == (page - 1) * pageSize
sorted == sortedOf(filtered, sortKey, sortDir)
pageRows == pageRowsOf(sorted, page, pageSize)

\* ids and need of the poster effect (page.tsx:273-274)
posterIds(prs) ==
    LET found == [i \in 1..Len(prs) |-> imdbIdFromUrl(prs[i].__url)]
        kept == SelectSeq(found, LAMBDA m : m.def)
    IN  [i \in 1..Len(kept) |-> kept[i].s]
posterNeed(prs, cache) ==
    SelectSeq(posterIds(prs), LAMBDA id : id \notin DOMAIN cache)

\* ------------------------------------------------------------------------
\* Commit of a batch of state updates, and the effects it schedules
\* ------------------------------------------------------------------------
\* upd maps the names of the state that a handler sets to the new values.
\* An array or object that is set (rawRows, genreFilter, posterCache) is a
\* new object even when its content is the same, so the memo cells and the
\* effects that depend on it are recomputed and re-run.
Set(upd, name, cur) == IF name \in DOMAIN upd THEN upd[name] ELSE cur

Commit(upd) ==
    /\ rawRows' = Set(upd, "rawRows", rawRows)
    /\ isLoading' = Set(upd, "isLoading", isLoading)
    /\ error' = Set(upd, "error", error)
    /\ q' = Set(upd, "q", q)
    /\ minYear' = Set(upd, "minYear", minYear)
    /\ maxYear' = Set(upd, "maxYear", maxYear)
    /\ minYourRating' = Set(upd, "minYourRating", minYourRating)
    /\ titleType' = Set(upd, "titleType", titleType)
    /\ genreFilter' = Set(upd, "genreFilter", genreFilter)
    /\ sortKey' = Set(upd, "sortKey", sortKey)
    /\ sortDir' = Set(upd, "sortDir", sortDir)
    /\ pageSize' = Set(upd, "pageSize", pageSize)
    /\ page' = Set(upd, "page", page)
    /\ posterCache' = Set(upd, "posterCache", posterCache)
    /\ csvUrl' = Set(upd, "csvUrl", csvUrl)
    /\ omdbKey' = omdbKey
    /\ savedUrl' = Set(upd, "savedUrl", savedUrl)
    /\ loads' = Set(upd, "loads", loads)
    /\ posterReqs' = Set(upd, "posterReqs", posterReqs)
    /\ requested' = Set(upd, "requested", requested)
    /\ events' = Set(upd, "events", events)
    /\ ran' = Set(upd, "ran", {})
    /\ lastStarted' = Set(upd, "lastStarted", lastStarted)
    /\ LET rowsNew == "rawRows" \in DOMAIN upd
           filteredNew ==
               \/ rowsNew
               \/ "genreFilter" \in DOMAIN upd
               \/ <<q, minYear, maxYear, titleType, minYourRating>>'
                     # <<q, minYear, maxYear, titleType, minYourRating>>
           sortedNew == filteredNew \/ <<sortKey, sortDir>>' # <<sortKey, sortDir>>
           pageRowsNew == sortedNew \/ <<pageStart, pageSize>>' # <<pageStart, pageSize>>
       IN  /\ rows' = IF rowsNew THEN rowsOf(rawRows') ELSE rows
           /\ filtered' = IF filteredNew THEN filteredOf(rows', Filter') ELSE filtered
           /\ pending' =
                 (IF csvUrl' # csvUrl THEN {"autoload"} ELSE {})
                 \cup (IF rowsNew THEN {"years"} ELSE {})
                 \cup (IF <<totalPages, page>>' # <<totalPages, page>>
                       THEN {"clamp"} ELSE {})
                 \cup (IF pageRowsNew \/ "posterCache" \in DOMAIN upd
                       THEN {"posters"} ELSE {})
    /\ UNCHANGED pureVars

\* The state a user event may find: the effects of the last commit have run.
Settled == pending = {}
UserEvent == Settled /\ events < MaxEvents
Counted == "events" :> (events + 1)

RemoveAt(sq, i) == SubSeq(sq, 1, i - 1) \o SubSeq(sq, i + 1, Len(sq))

NoUpdate == [n \in {} |-> 0]
If(c, upd) == IF c THEN upd ELSE NoUpdate

\* ------------------------------------------------------------------------
\* CSV loaders (page.tsx:102-125)
\* ------------------------------------------------------------------------
\* setError(""); setIsLoading(true) and the asynchronous read that follows.
StartLoad(ld) ==
    ("error" :> "") @@ ("isLoading" :> TRUE) @@ ("loads" :> Append(loads, ld))
       @@ ("lastStarted" :> ld)

\* A completion that leaves the page where it is.
LoadedKeepPage(data) == ("rawRows" :> data) @@ ("isLoading" :> FALSE)

\* setRawRows(res.data); setIsLoading(false); setPage(1)
Loaded(data) == ("rawRows" :> data) @@ ("isLoading" :> FALSE) @@ ("page" :> 1)

\* onFile(file), from the file input or a drop.
onFile(f) ==
    /\ UserEvent
    /\ Commit(StartLoad([kind |-> "file", src |-> f]) @@ Counted)

\* The complete callback of Papa.parse(file, ...).
FileComplete(i) ==
    /\ Settled
    /\ loads[i].kind = "file" /\ loads[i].src \in Sources
    /\ Commit(Loaded(ParseResult(loads[i].src).data)
              @@ ("loads" :> RemoveAt(loads, i)))

\* The error callback of Papa.parse(file, ...): the file cannot be read.
FileError(i) ==
    /\ Settled
    /\ loads[i].kind = "file" /\ loads[i].src \notin Sources
    /\ Commit(("error" :> ParseErrorText) @@ ("isLoading" :> FALSE)
              @@ ("loads" :> RemoveAt(loads, i)))

\* onPaste(e) with the pasted text t.
onPaste(t) ==
    /\ UserEvent
    /\ t.comma
    /\ Commit(Loaded(ParseResult(t.src).data)
              @@ ("lastStarted" :> [kind |-> "paste", src |-> t.src]) @@ Counted)

\* fetchCsvFromUrl(url) up to its first await.
fetchCsvFromUrl(url) == StartLoad([kind |-> "url", src |-> url])

\* fetchCsvFromUrl after the awaits: the response text is that of src.
FetchOk(i, src) ==
    /\ Settled
    /\ loads[i].kind = "url"
    /\ Commit(Loaded(ParseResult(src).data) @@ ("loads" :> RemoveAt(loads, i)))

\* A catch that also drops the rows loaded before.
FetchFailReset(i) ==
    /\ Settled
    /\ loads[i].kind = "url"
    /\ Commit(("error" :> FetchErrorText) @@ ("isLoading" :> FALSE)
              @@ ("rawRows" :> <<>>) @@ ("loads" :> RemoveAt(loads, i)))

\* The catch of fetchCsvFromUrl: fetch or resp.text() has thrown.
FetchFail(i) ==
    /\ Settled
    /\ loads[i].kind = "url"
    /\ Commit(("error" :> FetchErrorText) @@ ("isLoading" :> FALSE)
              @@ ("loads" :> RemoveAt(loads, i)))

\* onChange of the URL input, shown while no rows are loaded.
SetCsvUrl(u) ==
    /\ UserEvent
    /\ Len(rawRows) = 0
    /\ Commit(("csvUrl" :> u) @@ Counted)

\* saveAndFetch, the Save & Fetch button, shown while no rows are loaded.
saveAndFetch ==
    /\ UserEvent
    /\ Len(rawRows) = 0
    /\ Commit(("savedUrl" :> csvUrl) @@ fetchCsvFromUrl(csvUrl) @@ Counted)

\* ------------------------------------------------------------------------
\* Filter controls (page.tsx:373-412), shown while rows are loaded
\* ------------------------------------------------------------------------
OrElse(x, dflt) == IF IsFinite(x) THEN x.v ELSE dflt

SetQ(v) ==
    /\ UserEvent /\ Len(rawRows) > 0
    /\ Commit(("q" :> v) @@ Counted)

SetMinYourRating(text) ==
    /\ UserEvent /\ Len(rawRows) > 0
    /\ Commit(("minYourRating" :> OrElse(parseNumber(Def(text)), 0)) @@ Counted)

SetTitleType(t) ==
    /\ UserEvent /\ Len(rawRows) > 0
    /\ t \in {All} \cup allTypes
    /\ Commit(("titleType" :> t) @@ Counted)

SetMinYear(text) ==
    /\ UserEvent /\ Len(rawRows) > 0
    /\ Commit(("minYear" :> OrElse(parseNumber(Def(text)), minYear)) @@ Counted)

SetMaxYear(text) ==
    /\ UserEvent /\ Len(rawRows) > 0
    /\ Commit(("maxYear" :> OrElse(parseNumber(Def(text)), maxYear)) @@ Counted)

\* A genre chip: prev => active ? prev.filter(x => x !== g) : [...prev, g]
ToggleGenre(g) ==
    /\ UserEvent /\ Len(rawRows) > 0
    /\ g \in allGenres
    /\ LET active == \E i \in 1..Len(genreFilter) : genreFilter[i] = g
       IN  Commit(("genreFilter" :>
                      (IF active THEN SelectSeq(genreFilter, LAMBDA x : x # g)
                       ELSE Append(genreFilter, g))) @@ Counted)

\* The Clear button of the genre chips.
ClearGenres ==
    /\ UserEvent /\ Len(rawRows) > 0
    /\ allGenres # {}
    /\ Commit(("genreFilter" :> <<>>) @@ Counted)

\* ------------------------------------------------------------------------
\* Table controls (page.tsx:587, 641-649, 671-675), shown while rows are loaded
\* ------------------------------------------------------------------------
SetPageSize(n) ==
    /\ UserEvent /\ Len(rawRows) > 0
    /\ Commit(("pageSize" :> n) @@ ("page" :> 1) @@ Counted)

FirstPage ==
    /\ UserEvent /\ Len(rawRows) > 0
    /\ page # 1
    /\ Commit(("page" :> 1) @@ Counted)

PrevPage ==
    /\ UserEvent /\ Len(rawRows) > 0
    /\ page # 1
    /\ Commit(("page" :> Max(1, page - 1)) @@ Counted)

NextPage ==
    /\ UserEvent /\ Len(rawRows) > 0
    /\ page # totalPages
    /\ Commit(("page" :> Min(totalPages, page + 1)) @@ Counted)

LastPage ==
    /\ UserEvent /\ Len(rawRows) > 0
    /\ page # totalPages
    /\ Commit(("page" :> totalPages) @@ Counted)

\* A toggle that makes every newly chosen key ascending.
toggleSortAscending(key) ==
    /\ UserEvent /\ Len(rawRows) > 0
    /\ Commit((IF sortKey = key
               THEN "sortDir" :> (IF sortDir = "asc" THEN "desc" ELSE "asc")
               ELSE ("sortKey" :> key) @@ ("sortDir" :> "asc"))
              @@ ("page" :> 1) @@ Counted)

\* toggleSort(key) (page.tsx:671-675), from a click on a column header
toggleSort(key) ==
    /\ UserEvent /\ Len(rawRows) > 0
    /\ Commit((IF sortKey = key
               THEN "sortDir" :> (IF sortDir = "asc" THEN "desc" ELSE "asc")
               ELSE ("sortKey" :> key)
                      @@ ("sortDir" :> (IF key = "date" THEN "desc" ELSE "asc")))
              @@ ("page" :> 1) @@ Counted)

\* ------------------------------------------------------------------------
\* Effects (page.tsx:94-97, 125, 150, 266, 271-287)
\* ------------------------------------------------------------------------
\* A clamp that leaves the page where it is.
clampPageKeep(pg, tp) == pg

\* if (page > totalPages) setPage(totalPages)
clampPage(pg, tp) == IF pg > tp THEN tp ELSE pg

\* The requests counted so far, with those of need added.
Sent(need) ==
    [ id \in DOMAIN requested \cup {need[i] : i \in 1..Len(need)} |->
        (IF id \in DOMAIN requested THEN requested[id] ELSE 0) + Count(need, id) ]

\* The effects that the last commit scheduled run, in the order of the source,
\* on the values of that render; their updates are committed together.
RunEffects ==
    /\ ~Settled
    /\ LET restore == "restore" \in pending /\ savedUrl # <<>>
           auto == "autoload" \in pending /\ csvUrl # <<>> /\ Len(rawRows) = 0
           years == "years" \in pending
           clamp == "clamp" \in pending /\ page > totalPages
           need == IF "posters" \in pending /\ omdbKey
                   THEN posterNeed(pageRows, posterCache) ELSE <<>>
       IN  Commit(If(restore, "csvUrl" :> savedUrl)
                  @@ If(auto, fetchCsvFromUrl(csvUrl))
                  @@ If(years, ("minYear" :> allYears[1]) @@ ("maxYear" :> allYears[2]))
                  @@ If(clamp, "page" :> clampPage(page, totalPages))
                  @@ If(need # <<>>, ("posterReqs" :> Append(posterReqs, need))
                                       @@ ("requested" :> Sent(need)))
                  @@ ("ran" :> ({"restore" : x \in {1} \cap {IF restore THEN 1 ELSE 0}}
                                \cup {"autoload" : x \in {1} \cap {IF auto THEN 1 ELSE 0}}
                                \cup {"years" : x \in {1} \cap {IF years THEN 1 ELSE 0}}
                                \cup {"clamp" : x \in {1} \cap {IF clamp THEN 1 ELSE 0}}
                                \cup {"posters" : x \in {1} \cap {IF need # <<>> THEN 1 ELSE 0}})))

\* The poster text the metadata service returns for a title.
PosterOf(id) == <<"p">> \o id

\* A settling of the requests that sets the cache also when no poster came.
PosterDoneAlways(i, outcome) ==
    /\ Settled
    /\ LET need == posterReqs[i]
           got == {need[k] : k \in {j \in 1..Len(need) : outcome[j] = "poster"}}
       IN  Commit(("posterCache" :>
                        [id \in DOMAIN posterCache \cup got |->
                            IF id \in got THEN PosterOf(id) ELSE posterCache[id]])
                  @@ ("posterReqs" :> RemoveAt(posterReqs, i)))

\* A settling of the requests that reports a failed one in the error banner.
PosterDoneLoud(i, outcome) ==
    /\ Settled
    /\ LET need == posterReqs[i]
           got == {need[k] : k \in {j \in 1..Len(need) : outcome[j] = "poster"}}
       IN  Commit(If(got # {},
                     "posterCache" :>
                        [id \in DOMAIN posterCache \cup got |->
                            IF id \in got THEN PosterOf(id) ELSE posterCache[id]])
                  @@ If(\E k \in 1..Len(need) : outcome[k] = "fail",
                        "error" :> FetchErrorText)
                  @@ ("posterReqs" :> RemoveAt(posterReqs, i)))

\* All requests of one run of the poster effect have settled, request k with
\* outcome[k]; the posters received are merged into the cache.
PosterDone(i, outcome) ==
    /\ Settled
    /\ LET need == posterReqs[i]
           got == {need[k] : k \in {j \in 1..Len(need) : outcome[j] = "poster"}}
       IN  Commit(If(got # {},
                     "posterCache" :>
                        [id \in DOMAIN posterCache \cup got |->
                            IF id \in got THEN PosterOf(id) ELSE posterCache[id]])
                  @@ ("posterReqs" :> RemoveAt(posterReqs, i)))

\* ------------------------------------------------------------------------
\* The session
\* ------------------------------------------------------------------------
\* The component after its first render, with the stored URL saved and the
\* poster key set or not (key).
AppInit(saved, key) ==
    /\ rawRows = <<>> /\ isLoading = FALSE /\ error = ""
    /\ q = <<>> /\ minYear = 1900 * Scale /\ maxYear = 2100 * Scale
    /\ minYourRating = 0 /\ titleType = All /\ genreFilter = <<>>
    /\ sortKey = "date" /\ sortDir = "desc" /\ pageSize = 100 /\ page = 1
    /\ posterCache = NoUpdate /\ csvUrl = <<>>
    /\ rows = <<>> /\ filtered = <<>>
    /\ omdbKey = key /\ savedUrl = saved /\ loads = <<>> /\ posterReqs = <<>>
    /\ requested = NoUpdate
    /\ pending = {"restore", "autoload", "years", "clamp", "posters"}
    /\ events = 0 /\ ran = {} /\ lastStarted = [kind |-> "none", src |-> ""]

\* A session without a poster key (the key is optional).
Init ==
    /\ \E saved \in {<<>>, <<"a">>} : AppInit(saved, FALSE)
    /\ fn = "none" /\ arg = <<>> /\ res = <<>>

Next ==
    \/ \E f \in Files : onFile(f)
    \/ \E i \in 1..Len(loads) : FileComplete(i)
    \/ \E i \in 1..Len(loads) : FileError(i)
    \/ \E t \in PasteTexts : onPaste(t)
    \/ \E i \in 1..Len(loads), src \in UrlSources : FetchOk(i, src)
    \/ \E i \in 1..Len(loads) : FetchFail(i)
    \/ \E u \in Urls \cup {<<>>} : SetCsvUrl(u)
    \/ saveAndFetch
    \/ \E v \in QueryTexts : SetQ(v)
    \/ \E text \in RatingTexts : SetMinYourRating(text)
    \/ \E t \in {All} \cup allTypes : SetTitleType(t)
    \/ \E text \in YearTexts : SetMinYear(text)
    \/ \E text \in YearTexts : SetMaxYear(text)
    \/ \E g \in allGenres : ToggleGenre(g)
    \/ ClearGenres
    \/ \E n \in PageSizes : SetPageSize(n)
    \/ FirstPage
    \/ PrevPage
    \/ NextPage
    \/ LastPage
    \/ \E key \in SortKeys : toggleSort(key)
    \/ RunEffects

Spec == Init /\ [][Next]_vars

\* A session with the poster key set, on pasted exports.
InitPosters ==
    /\ AppInit(<<>>, TRUE)
    /\ fn = "none" /\ arg = <<>> /\ res = <<>>

NextPosters ==
    \/ \E t \in PasteTexts : onPaste(t)
    \/ \E v \in QueryTexts : SetQ(v)
    \/ \E g \in allGenres : ToggleGenre(g)
    \/ ClearGenres
    \/ \E n \in PageSizes : SetPageSize(n)
    \/ \E key \in SortKeys : toggleSort(key)
    \/ RunEffects
    \/ \E i \in 1..Len(posterReqs) :
          \E outcome \in [1..Len(posterReqs[i]) -> PosterOutcomes] :
             PosterDone(i, outcome)

SpecPosters == InitPosters /\ [][NextPosters]_vars

\* Some round of poster requests in flight settles.
PosterDoneSome ==
    \E i \in 1..Len(posterReqs) :
       \E outcome \in [1..Len(posterReqs[i]) -> PosterOutcomes] : PosterDone(i, outcome)

\* The session with the poster key when every round of requests in flight
\* settles (each fetch resolves or rejects).  User events need not happen.
SpecPostersFair == SpecPosters /\ WF_vars(PosterDoneSome)

\* ------------------------------------------------------------------------
\* The pure functions, applied to enumerated inputs
\* ------------------------------------------------------------------------
\* The component is not mounted further: its state stays as constructed.
\* A behaviour starts with an input in arg and applies one function to it.
PureInit(inputs) ==
    /\ AppInit(<<>>, FALSE)
    /\ fn = "none" /\ arg \in inputs /\ res = <<>>

\* All texts of at most n characters of the alphabet cs.
Texts(cs, n) == UNION {[1..k -> cs] : k \in 0..n}

\* ---- parseNumber ----
\* Digits, the two other characters the pattern keeps, and the letters and
\* the slash of "N/A".
ParseAlphabet == {"7", ".", "-", "N", "/", "A"}
ParseInputs == {Undefined} \cup {Def(s) : s \in Texts(ParseAlphabet, MaxStrLen)}

CallParseNumber ==
    /\ fn = "none"
    /\ fn' = "parseNumber" /\ res' = parseNumber(arg)
    /\ UNCHANGED <<appVars, arg>>

CallParseNumberGuarded ==
    /\ fn = "none"
    /\ fn' = "parseNumberGuarded" /\ res' = parseNumberGuarded(arg)
    /\ UNCHANGED <<appVars, arg>>

InitParse == PureInit(ParseInputs)
NextParse == CallParseNumber \/ CallParseNumberGuarded
SpecParse == InitParse /\ [][NextParse]_vars

\* ---- normalize ----
\* Largest row index enumerated for the normalizer.
MaxIndex == 1
NormColumns == {"Your Rating", "rating", "Title", "title", "Const", "const"}
NormCells == {<<>>, <<"8">>}
\* Raw rows with any subset of the columns, each cell empty or not.
NormRows == UNION {[D -> NormCells] : D \in SUBSET NormColumns}

CallNormalize ==
    /\ fn = "none"
    /\ fn' = "normalize" /\ res' = normalize(arg.row, arg.index)
    /\ UNCHANGED <<appVars, arg>>

InitNorm == PureInit([row : NormRows, index : 0..MaxIndex])
NextNorm == CallNormalize
SpecNorm == InitNorm /\ [][NextNorm]_vars

\* ---- filtered ----
Optional(col, cells) == {NoUpdate} \cup {col :> c : c \in cells}

\* Raw rows whose columns are absent or hold a value.
FilterRaws ==
    { t @@ y @@ g @@ k @@ gs :
        t \in Optional("Title", {<<"D", "u">>}),
        y \in Optional("Year", {<<"1", "8", "5", "0">>, Y1995}),
        g \in Optional("Your Rating", {<<"-", "1">>, <<"8">>}),
        k \in Optional("Title Type", {<<"m">>}),
        gs \in Optional("Genres", {<<"A", ",", " ", "B">>}) }

\* The rows that may follow the first one.
FilterTails ==
    { <<>>,
      << "Year" :> Y1995 >>,
      << ("Title" :> <<"D", "u">>) @@ ("Year" :> Y2001) @@ ("Title Type" :> <<"s">>)
           @@ ("Genres" :> <<"B">>) >> }

FilterRows == {rowsOf(<<r>> \o t) : r \in FilterRaws, t \in FilterTails}

FilterStates ==
    [ q : {<<>>, <<"d", "u">>},
      minYear : {1900 * Scale, 2000 * Scale},
      maxYear : {2100 * Scale, 1990 * Scale},
      minYourRating : {0, 9 * Scale},
      titleType : {All, <<"m">>, <<"s">>},
      genreFilter : {<<>>, << <<"C">> >>, << <<"B">>, <<"C">> >>} ]

CallFiltered ==
    /\ fn = "none"
    /\ fn' = "filtered" /\ res' = filteredOf(arg.rows, arg.f)
    /\ UNCHANGED <<appVars, arg>>

InitFilter == PureInit([rows : FilterRows, f : FilterStates])
NextFilter == CallFiltered
SpecFilter == InitFilter /\ [][NextFilter]_vars

\* ---- longestStreak and longestGap ----
\* Most dates of one behaviour.
MaxDates == 4
TimeZones == {Utc, Eastern}
\* Three consecutive days, an isolated day, and the two days after the
\* start of daylight saving time.
DatePool ==
    { TimeOfDay(DaysFromCivil(2024, 1, 1)), TimeOfDay(DaysFromCivil(2024, 1, 2)),
      TimeOfDay(DaysFromCivil(2024, 1, 3)), TimeOfDay(DaysFromCivil(2024, 2, 1)),
      TimeOfDay(DaysFromCivil(2024, 3, 11)), TimeOfDay(DaysFromCivil(2024, 3, 12)) }
DateLists == UNION {[1..k -> DatePool] : k \in 0..MaxDates}

CallLongestStreak ==
    /\ fn = "none"
    /\ fn' = "longestStreak" /\ res' = longestStreak(arg.tz, arg.dates)
    /\ UNCHANGED <<appVars, arg>>

CallLongestGap ==
    /\ fn = "none"
    /\ fn' = "longestGap" /\ res' = longestGap(arg.tz, arg.dates)
    /\ UNCHANGED <<appVars, arg>>

InitDates == PureInit([tz : TimeZones, dates : DateLists])
NextDates == CallLongestStreak \/ CallLongestGap
SpecDates == InitDates /\ [][NextDates]_vars

\* ---- facts and ratingHistogram ----
\* Most rows of one list of filtered records.
MaxFactRows == 3

RatedRow(title, your, imdb) ==
    ("Title" :> title) @@ ("Your Rating" :> your) @@ ("IMDb Rating" :> imdb)

\* Rows with both ratings (deltas 4, 0.5, 4 and 0) and rows that lack one.
DisagreeRaws ==
    { RatedRow(<<"a">>, <<"9">>, <<"5">>), RatedRow(<<"b">>, <<"6">>, <<"6", ".", "5">>),
      RatedRow(<<"d">>, <<"5">>, <<"9">>), RatedRow(<<"u">>, <<"7">>, <<"7">>),
      ("Title" :> <<"m">>) @@ ("Your Rating" :> <<"8">>),
      ("Title" :> <<"n">>) @@ ("IMDb Rating" :> <<"7">>) }

ListsOf(raws, n) == {rowsOf(l) : l \in UNION {[1..k -> raws] : k \in 0..n}}

\* Most rows of one list of records with directors.
MaxDirectorRows == 4

DirectedRow(directors, your) == ("Directors" :> directors) @@ ("Your Rating" :> your)

\* Rows that name one director, two, or the same one twice, and an unrated row.
DirectorRaws ==
    { DirectedRow(d, y) : d \in {<<"a">>, <<"b">>, <<"a", ",", " ", "b">>, <<"a", ",", "a">>},
                          y \in {<<"7">>, <<"9">>} }
    \cup {"Directors" :> <<"a">>}

FactLists ==
    ListsOf(DisagreeRaws, MaxFactRows) \cup ListsOf(DirectorRaws, MaxDirectorRows)

CallDisagree ==
    /\ fn = "none"
    /\ fn' = "disagree" /\ res' = disagree(arg)
    /\ UNCHANGED <<appVars, arg>>

CallTopDirector ==
    /\ fn = "none"
    /\ fn' = "topDirector" /\ res' = topDirector(arg)
    /\ UNCHANGED <<appVars, arg>>

InitFacts == PureInit(FactLists)
NextFacts == CallDisagree \/ CallTopDirector
SpecFacts == InitFacts /\ [][NextFacts]_vars

\* ---- facts.months ----
\* Most rows of one list of dated records.
MaxMonthRows == 3

\* The current time: the first instant of February 2024 in UTC (still
\* January in a zone behind UTC), and a day of December 2024.
Nows == {TimeOfDay(DaysFromCivil(2024, 2, 1)), TimeOfDay(DaysFromCivil(2024, 12, 15))}

\* Rows dated in the month of the first current time, 23 and 24 months
\* before it, and the month after it, and a row without a date.
MonthRaws ==
    { "Date Rated" :> <<"2", "0", "2", "4", "-", "0", "2", "-", "0", "1">>,
      "Date Rated" :> <<"2", "0", "2", "2", "-", "0", "3", "-", "0", "1">>,
      "Date Rated" :> <<"2", "0", "2", "2", "-", "0", "2", "-", "0", "1">>,
      "Date Rated" :> <<"2", "0", "2", "4", "-", "0", "3", "-", "0", "1">>,
      "Title" :> <<"a">> }

CallMonths ==
    /\ fn = "none"
    /\ fn' = "months" /\ res' = months(arg.tz, arg.now, arg.rows)
    /\ UNCHANGED <<appVars, arg>>

InitMonths ==
    PureInit([tz : TimeZones, now : Nows, rows : ListsOf(MonthRaws, MaxMonthRows)])
NextMonths == CallMonths
SpecMonths == InitMonths /\ [][NextMonths]_vars

\* ---- ratingHistogram ----
\* Most rows of one list of rated records.
MaxHistRows == 4

\* Ratings at both ends of the range, inside it, below it, above it,
\* fractional, empty and missing.
HistRaws ==
    { "Your Rating" :> y : y \in {<<"1">>, <<"5">>, <<"7">>, <<"1", "0">>, <<"0">>,
                                  <<"1", "1">>, <<"5", ".", "5">>, <<>>} }
    \cup {"Title" :> <<"a">>}

CallRatingHistogram ==
    /\ fn = "none"
    /\ fn' = "ratingHistogram" /\ res' = ratingHistogram(arg)
    /\ UNCHANGED <<appVars, arg>>

InitHist == PureInit(ListsOf(HistRaws, MaxHistRows))
NextHist == CallRatingHistogram
SpecHist == InitHist /\ [][NextHist]_vars

\* ---- sorted ----
\* Most rows of one list of records to sort.
MaxSortRows == 3

SortDirs == {"asc", "desc"}

\* Rows with every sort key, rows that lack all but one, and titles that
\* differ only by case.
SortRaws ==
    { ("Title" :> <<"a">>) @@ ("Year" :> <<"2">>) @@ ("Your Rating" :> <<"7">>)
         @@ ("IMDb Rating" :> <<"5">>)
         @@ ("Date Rated" :> <<"2", "0", "2", "4", "-", "0", "1", "-", "0", "2">>),
      ("Title" :> <<"B">>) @@ ("Year" :> <<"1">>) @@ ("Your Rating" :> <<"9">>)
         @@ ("IMDb Rating" :> <<"6", ".", "5">>)
         @@ ("Date Rated" :> <<"2", "0", "2", "4", "-", "0", "1", "-", "0", "1">>),
      ("Title" :> <<"D">>) @@ ("Year" :> <<"1">>) @@ ("Your Rating" :> <<"7">>)
         @@ ("IMDb Rating" :> <<"9">>)
         @@ ("Date Rated" :> <<"2", "0", "2", "4", "-", "0", "2", "-", "0", "1">>),
      "Title" :> <<"b">>,
      "Year" :> <<"2">> }

CallSorted ==
    /\ fn = "none"
    /\ fn' = "sorted" /\ res' = sortedOf(arg.rows, arg.key, arg.dir)
    /\ UNCHANGED <<appVars, arg>>

InitSort ==
    PureInit([rows : ListsOf(SortRaws, MaxSortRows), key : SortKeys, dir : SortDirs])
NextSort == CallSorted
SpecSort == InitSort /\ [][NextSort]_vars

\* ---- Export filtered CSV ----
\* Most rows of one loaded file to export.
MaxExportRows == 3

\* Rows of files with different columns.
ExportRaws ==
    { ("Title" :> <<"a">>) @@ ("Year" :> <<"2">>),
      ("Title" :> <<"d", "u">>) @@ ("Year" :> <<"1">>),
      ("Const" :> <<"1">>) @@ ("Your Rating" :> <<"7">>),
      "Title" :> <<"b">> }

\* The default filter, and a text query.
ExportFilters == {DefaultFilter, [DefaultFilter EXCEPT !.q = <<"d", "u">>]}

CallExport ==
    /\ fn = "none"
    /\ fn' = "export" /\ res' = downloadCSVFromRows(arg.rows, arg.f)
    /\ UNCHANGED <<appVars, arg>>

InitExport == PureInit([rows : ListsOf(ExportRaws, MaxExportRows), f : ExportFilters])
NextExport == CallExport
SpecExport == InitExport /\ [][NextExport]_vars

\* ---- rows ----
\* Most rows of one load.
MaxLoadRows == 3

\* Rows without an id column, and rows whose id is a number text or not.
LoadRaws ==
    { "Title" :> <<"a">>, "Const" :> <<"0">>, "Const" :> <<"1">>,
      "const" :> <<"1">>, "Const" :> <<"t", "t", "1">> }

\* The lists of at most n rows of raws.
RawLists(raws, n) == UNION {[1..k -> raws] : k \in 0..n}

CallRows ==
    /\ fn = "none"
    /\ fn' = "rows" /\ res' = rowsOf(arg)
    /\ UNCHANGED <<appVars, arg>>

InitLoad == PureInit(RawLists(LoadRaws, MaxLoadRows))
NextLoad == CallRows
SpecLoad == InitLoad /\ [][NextLoad]_vars

\* ---- facts and the chart data ----
\* Most rows of one loaded file to aggregate.
MaxAggRows == 2

\* A row with every column, a row with some, and a row with a title only.
AggRaws ==
    { ("Title" :> <<"a">>) @@ ("Year" :> Y2001) @@ ("Your Rating" :> <<"7">>)
         @@ ("IMDb Rating" :> <<"5">>) @@ ("Runtime (mins)" :> <<"9", "0">>)
         @@ ("Date Rated" :> <<"2", "0", "2", "4", "-", "0", "1", "-", "0", "2">>)
         @@ ("Genres" :> <<"C", ",", " ", "B">>) @@ ("Directors" :> <<"a">>),
      ("Title" :> <<"d", "u">>) @@ ("Year" :> Y1995) @@ ("Your Rating" :> <<"9">>)
         @@ ("Date Rated" :> <<"2", "0", "2", "4", "-", "0", "1", "-", "0", "1">>)
         @@ ("Genres" :> <<"C">>),
      "Title" :> <<"b">> }

\* The default filter, a query that one title matches, and one that none does.
AggFilters ==
    { DefaultFilter, [DefaultFilter EXCEPT !.q = <<"d", "u">>],
      [DefaultFilter EXCEPT !.q = <<"n">>] }

CallFacts ==
    /\ fn = "none"
    /\ fn' = "facts" /\ res' = facts(arg.tz, arg.now, filteredOf(arg.rows, arg.f))
    /\ UNCHANGED <<appVars, arg>>

CallCharts ==
    /\ fn = "none"
    /\ fn' = "charts" /\ res' = charts(filteredOf(arg.rows, arg.f))
    /\ UNCHANGED <<appVars, arg>>

InitAgg ==
    PureInit([tz : TimeZones, now : Nows, rows : ListsOf(AggRaws, MaxAggRows),
              f : AggFilters])
NextAgg == CallFacts \/ CallCharts
SpecAgg == InitAgg /\ [][NextAgg]_vars

\* ---- facts.topDirector: directors with the same average ----
\* Most rows of one list of records with directors of equal averages.
MaxTieRows == 4

\* An unrated row that names b, and rated rows that name a, b or both.
TieRaws ==
    { "Directors" :> <<"b">>,
      DirectedRow(<<"a", ",", " ", "b">>, <<"7">>),
      DirectedRow(<<"a">>, <<"7">>), DirectedRow(<<"b">>, <<"7">>),
      DirectedRow(<<"a">>, <<"9">>) }

CallTopDirectorTie ==
    /\ fn = "none"
    /\ fn' = "topDirector" /\ res' = topDirector(arg)
    /\ UNCHANGED <<appVars, arg>>

InitTie == PureInit(ListsOf(TieRaws, MaxTieRows))
NextTie == CallTopDirectorTie
SpecTie == InitTie /\ [][NextTie]_vars

\* ------------------------------------------------------------------------
\* Properties
\* ------------------------------------------------------------------------
InSeq(x, sq) == \E k \in 1..Len(sq) : sq[k] = x

\* C1: with totalPages = max(1, ceil(count / pageSize)), a page greater than
\* totalPages is set to totalPages by the clamp effect, so that once the
\* effects have settled 1 <= page <= totalPages; 205 records at page size
\* 100 give 3 pages, and page 5 becomes page 3.
C1_PageClamped ==
    /\ totalPagesOf(205, 100) = 3
    /\ clampPage(5, 3) = 3
    /\ [](Settled => (1 <= page /\ page <= totalPages))
    /\ [][("clamp" \in pending /\ page > totalPages) => page' = totalPages]_vars

\* C1 witness: the clamp effect has just moved the page down to the last of
\* several pages.
C1_Witness == "clamp" \in ran /\ page = totalPages /\ page > 1

\* C2: no poster request is sent twice for the same title id in a session.
C2_OneRequestPerTitle == \A id \in DOMAIN requested : requested[id] <= 1

\* C3: when the fetch of the CSV from a URL throws, the one error message is
\* set, isLoading becomes false, and the loaded rows, the filter, the sort
\* and the page are left as they were.
C3_FailedFetchKeepsState ==
    [][\A i \in 1..Len(loads) :
          FetchFail(i) =>
             /\ error' = FetchErrorText
             /\ isLoading' = FALSE
             /\ UNCHANGED <<rawRows, rows, q, minYear, maxYear, minYourRating,
                            titleType, genreFilter, sortKey, sortDir, pageSize,
                            page>>]_vars

\* C3 witness: a fetch has failed while rows loaded before it are shown.
C3_Witness == error = FetchErrorText /\ ~isLoading /\ Len(rawRows) > 0

\* C4: on each of the three load paths (file, paste, URL), when the parser
\* reports errors for the content, an error message is shown and the rows
\* loaded before are kept.
C4_MalformedKeepsRows ==
    [][(\/ \E i \in 1..Len(loads) :
              /\ loads[i].kind = "file" /\ loads[i].src \in Sources
              /\ ParseResult(loads[i].src).errors
              /\ FileComplete(i)
        \/ \E t \in PasteTexts : ParseResult(t.src).errors /\ onPaste(t)
        \/ \E i \in 1..Len(loads), src \in UrlSources :
              ParseResult(src).errors /\ FetchOk(i, src))
       => (error' # "" /\ rawRows' = rawRows)]_vars

\* C5: parseNumber returns null if and only if the value is absent or, with
\* every character other than digits, "." and "-" removed, is not a number;
\* a value that strips to the empty text gives null, never 0.
C5_NullIffUnparseable ==
    fn = "parseNumber" =>
        LET stripped == StripNonNumeric(arg.s)
        IN  (res = Null) <=>
               (~arg.def \/ stripped = <<>> \/ ~IsDecimalLiteral(stripped))

\* The value of the first key of keys that row r has with a non-empty text.
RECURSIVE FirstNonEmpty(_, _)
FirstNonEmpty(r, keys) ==
    IF keys = <<>> THEN Undefined
    ELSE IF keys[1] \in DOMAIN r /\ r[keys[1]] # <<>> THEN Def(r[keys[1]])
    ELSE FirstNonEmpty(r, Tail(keys))

ValueOr(x, dflt) == IF x.def THEN x.s ELSE dflt

\* C6: each field of the canonical record comes from the first candidate
\* column with a non-empty value; an empty candidate is skipped for a later
\* one, and for the id for the row index.
C6_FirstNonEmptyWins ==
    fn = "normalize" =>
        /\ res.__title = ValueOr(FirstNonEmpty(arg.row, TitleKeys), <<>>)
        /\ res.__tconst = ValueOr(FirstNonEmpty(arg.row, TconstKeys), StringOf(arg.index))
        /\ FirstNonEmpty(arg.row, YourRatingKeys).def =>
              res.__yourRating = parseNumber(FirstNonEmpty(arg.row, YourRatingKeys))

\* C7: with every dimension of the filter at its default, every record is
\* accepted: the filtered rows are the rows.
C7_DefaultFilterAcceptsAll ==
    (fn = "filtered" /\ arg.f = DefaultFilter) => res = arg.rows

\* C8, as stated: a record that lacks the field a dimension targets passes
\* that dimension under any constraint, for each of the five dimensions.
C8_LackingFieldPasses ==
    fn = "filtered" =>
        \A k \in 1..Len(arg.rows) :
            LET r == arg.rows[k]
                f == arg.f
            IN  /\ r.__title = <<>> => textOk(r, f)
                /\ r.__year = Null => yearOk(r, f)
                /\ r.__yourRating = Null => yourOk(r, f)
                /\ r.__type = <<>> => typeOk(r, f)
                /\ r.__genres = <<>> => genresOk(r, f)

\* C8, amended: a record with a null year or a null rating passes the year
\* and the rating dimension under any constraint; a record with an empty
\* title, type or genre list passes the text, type or genre dimension
\* exactly when that dimension is unconstrained.
C8_NullNumbersPass ==
    fn = "filtered" =>
        \A k \in 1..Len(arg.rows) :
            LET r == arg.rows[k]
                f == arg.f
            IN  /\ r.__year = Null => yearOk(r, f)
                /\ r.__yourRating = Null => yourOk(r, f)
                /\ r.__title = <<>> => (textOk(r, f) <=> trim(f.q) = <<>>)
                /\ r.__type = <<>> => (typeOk(r, f) <=> f.titleType = All)
                /\ r.__genres = <<>> => (genresOk(r, f) <=> f.genreFilter = <<>>)

\* C8 witness: a record without a rating is kept under a minimum rating,
\* and a record without a title is dropped by a query.
C8_Witness ==
    /\ fn = "filtered"
    /\ arg.f.minYourRating > 0 /\ arg.f.q # <<>>
    /\ \E k \in 1..Len(arg.rows) :
          arg.rows[k].__yourRating = Null /\ InSeq(arg.rows[k], res)
    /\ \E k \in 1..Len(arg.rows) :
          arg.rows[k].__title = <<>> /\ ~InSeq(arg.rows[k], res)

\* C9: a record with a null year is never excluded by the year range, an
\* empty range (minYear > maxYear) included: it is in the filtered rows
\* whenever it passes the other four dimensions.
C9_NullYearNeverExcluded ==
    fn = "filtered" =>
        \A k \in 1..Len(arg.rows) :
            LET r == arg.rows[k]
                f == arg.f
            IN  (/\ r.__year = Null
                 /\ typeOk(r, f) /\ yourOk(r, f) /\ textOk(r, f) /\ genresOk(r, f))
                => InSeq(r, res)

\* C9 witness: a record with a null year is kept under an empty year range.
C9_Witness ==
    /\ fn = "filtered"
    /\ arg.f.minYear > arg.f.maxYear
    /\ \E k \in 1..Len(arg.rows) :
          arg.rows[k].__year = Null /\ InSeq(arg.rows[k], res)

GenreSet(r) == {r.__genres[i] : i \in 1..Len(r.__genres)}
Requested(f) == {f.genreFilter[j] : j \in 1..Len(f.genreFilter)}

\* C10: the filtered rows are the rows that pass all five dimensions, and
\* the genre dimension passes exactly when no genre is requested or the
\* record has at least one of the requested genres.
C10_AllDimensionsGenreAny ==
    fn = "filtered" =>
        LET f == arg.f
        IN  /\ res = SelectSeq(arg.rows,
                       LAMBDA r : /\ yearOk(r, f) /\ typeOk(r, f) /\ yourOk(r, f)
                                  /\ textOk(r, f) /\ genresOk(r, f))
            /\ \A k \in 1..Len(arg.rows) :
                  genresOk(arg.rows[k], f) <=>
                     (Requested(f) = {} \/ GenreSet(arg.rows[k]) \cap Requested(f) # {})

\* C10 witness: a record with one of two requested genres is kept while
\* another record of the rows is dropped.
C10_Witness ==
    /\ fn = "filtered"
    /\ Cardinality(Requested(arg.f)) = 2
    /\ Len(res) < Len(arg.rows)
    /\ \E k \in 1..Len(res) :
          Cardinality(GenreSet(res[k]) \cap Requested(arg.f)) = 1

\* The local calendar days (day numbers) of a list of dates.
CalendarDays(tz, dates) == {LocalDay(tz, dates[i]) : i \in 1..Len(dates)}

\* The number of consecutive days of S from day a on.
RECURSIVE RunLength(_, _)
RunLength(S, a) == IF a \in S THEN 1 + RunLength(S, a + 1) ELSE 0

\* C11: longestStreak gives the length of the longest run of distinct
\* calendar days each one day after the previous, with start and end the
\* first and last day of the earliest run of that length; no dates give
\* length 0 with null start and end, one day gives length 1.
C11_LongestRunOfDays ==
    fn = "longestStreak" =>
        LET S == CalendarDays(arg.tz, arg.dates)
        IN  IF S = {} THEN res = [len |-> 0, start |-> Null, end |-> Null]
            ELSE LET best == CHOOSE n \in {RunLength(S, a) : a \in S} :
                                \A a \in S : RunLength(S, a) <= n
                     first == CHOOSE a \in S :
                                 /\ RunLength(S, a) = best
                                 /\ \A b \in S : RunLength(S, b) = best => a <= b
                 IN  res = [len |-> best,
                            start |-> Num(LocalMidnight(arg.tz, first)),
                            end |-> Num(LocalMidnight(arg.tz, first + best - 1))]

\* C12: longestGap gives the largest number of days between consecutive
\* distinct rating days, with start and end the two days of the earliest
\* such pair; with fewer than two distinct days it gives 0 days and null
\* start and end.
C12_LongestGapOfDays ==
    fn = "longestGap" =>
        LET S == CalendarDays(arg.tz, arg.dates)
            Next2(a) == CHOOSE b \in S : b > a /\ \A c \in S : c > a => b <= c
            Starts == {a \in S : \E b \in S : b > a}
        IN  IF Cardinality(S) < 2
            THEN res = [days |-> 0, start |-> Null, end |-> Null]
            ELSE LET a == CHOOSE x \in Starts :
                             \A y \in Starts :
                                \/ Next2(y) - y < Next2(x) - x
                                \/ Next2(y) - y = Next2(x) - x /\ x <= y
                 IN  res = [days |-> Next2(a) - a,
                            start |-> Num(LocalMidnight(arg.tz, a)),
                            end |-> Num(LocalMidnight(arg.tz, Next2(a)))]

\* C12 witness: several dates, two of them on the same day, with a longest
\* gap of more than one day.
C12_Witness ==
    /\ fn = "longestGap"
    /\ res.days > 1
    /\ Cardinality(CalendarDays(arg.tz, arg.dates)) < Len(arg.dates)
    /\ Cardinality(CalendarDays(arg.tz, arg.dates)) >= 3

\* The indices of the records of rs that have both ratings.
BothRated(rs) ==
    {i \in 1..Len(rs) : IsFinite(rs[i].__yourRating) /\ IsFinite(rs[i].__imdbRating)}

Delta(r) == Abs(r.__yourRating.v - r.__imdbRating.v)

\* C13: the biggest disagreement is the record with both ratings that
\* maximizes |yourRating - imdbRating|, the earliest one when several share
\* the maximum (a maximum of 0 included), and null exactly when no record
\* has both ratings; (9, 5) and (6, 6.5) give the first with delta 4.
C13_BiggestDisagreement ==
    /\ disagree(rowsOf(<<RatedRow(<<"a">>, <<"9">>, <<"5">>),
                         RatedRow(<<"b">>, <<"6">>, <<"6", ".", "5">>)>>)).v = 4 * Scale
    /\ fn = "disagree" =>
          LET B == BothRated(arg)
          IN  IF B = {} THEN res = NoFact
              ELSE LET i == CHOOSE k \in B :
                               /\ \A j \in B : Delta(arg[j]) <= Delta(arg[k])
                               /\ \A j \in B : Delta(arg[j]) = Delta(arg[k]) => k <= j
                   IN  res = [def |-> TRUE, title |-> arg[i].__title,
                              your |-> arg[i].__yourRating.v,
                              imdb |-> arg[i].__imdbRating.v, v |-> Delta(arg[i])]

\* C13 witness: two records share the largest delta and the earlier one is
\* reported.
C13_Witness ==
    /\ fn = "disagree" /\ res.def
    /\ \E i, j \in BothRated(arg) :
          /\ i < j /\ arg[i].__title # arg[j].__title
          /\ Delta(arg[i]) = res.v /\ Delta(arg[j]) = res.v
          /\ res.title = arg[i].__title

\* The records (indices) of rs with a rating that name the director d.
TitlesOf(rs, d) ==
    {i \in 1..Len(rs) :
        /\ IsFinite(rs[i].__yourRating)
        /\ \E k \in 1..Len(directorsOf(rs[i])) : directorsOf(rs[i])[k] = d}

AllDirectors(rs) ==
    UNION {{directorsOf(rs[i])[k] : k \in 1..Len(directorsOf(rs[i]))} : i \in 1..Len(rs)}

\* The sum of the ratings of the records I of rs.
RECURSIVE RatingSum(_, _)
RatingSum(rs, I) ==
    IF I = {} THEN 0
    ELSE LET i == CHOOSE x \in I : TRUE
         IN  rs[i].__yourRating.v + RatingSum(rs, I \ {i})

\* C14: the top director is named by at least 3 rated records of the
\* filtered set, has the highest mean rating among the directors with 3 or
\* more, and is reported with n the number of those records; the result is
\* null when no director has 3 rated records.
C14_TopDirectorOfThreeTitles ==
    fn = "topDirector" =>
        LET Q == {d \in AllDirectors(arg) : Cardinality(TitlesOf(arg, d)) >= 3}
            sum(d) == RatingSum(arg, TitlesOf(arg, d))
            n(d) == Cardinality(TitlesOf(arg, d))
        IN  IF Q = {} THEN res = NoFact
            ELSE /\ res.def
                 /\ res.director \in Q
                 /\ res.n = n(res.director)
                 /\ res.sum = sum(res.director)
                 /\ \A d \in Q : sum(d) * res.n <= res.sum * n(d)

\* The count of months (year * 12 + month - 1) of a year and month.
MonthIndex(ym) == ym.y * 12 + ym.m - 1

\* The records of rs dated in the month of index x.
DatedIn(tz, rs, x) ==
    {i \in 1..Len(rs) :
        /\ rs[i].__dateRated # Null
        /\ MonthIndex(LocalYearMonth(tz, TimeOfDay(rs[i].__dateRated.v))) = x}

\* C15: the monthly series has exactly 24 entries, for 24 consecutive
\* months in ascending order ending with the month of the current time;
\* each count is the number of records dated in that month, and records
\* dated outside the window are counted nowhere.
C15_MonthlyWindow ==
    fn = "months" =>
        LET last == MonthIndex(LocalYearMonth(arg.tz, arg.now))
        IN  /\ Len(res) = 24
            /\ \A k \in 1..24 :
                  LET x == last - (24 - k)
                  IN  /\ res[k].month = MonthKey([y |-> x \div 12, m |-> (x % 12) + 1])
                      /\ res[k].count = Cardinality(DatedIn(arg.tz, arg.rows, x))

\* C15 witness: a record is counted in the first month of the window, and
\* another record, dated before the window, is counted nowhere.
C15_Witness ==
    /\ fn = "months"
    /\ res[1].count > 0
    /\ \E i \in 1..Len(arg.rows) :
          /\ arg.rows[i].__dateRated # Null
          /\ MonthIndex(LocalYearMonth(arg.tz, TimeOfDay(arg.rows[i].__dateRated.v)))
                < MonthIndex(LocalYearMonth(arg.tz, arg.now)) - 23


\* The records of rs whose rating is null or a whole number.
Integral(rs) ==
    \A i \in 1..Len(rs) :
        rs[i].__yourRating.kind = "num" => rs[i].__yourRating.v % Scale = 0

C16_WitnessOutside ==
    /\ fn = "ratingHistogram"
    /\ {arg[i].__yourRating : i \in 1..Len(arg)} = {Whole(0), Whole(11), Null}
    /\ \A k \in 1..10 : res[k].count = 0


\* The value of a record under a sort key: absent for a null key (a record
\* without a title has the empty title), else a number or a lower-cased text.
SortValue(r, key) ==
    CASE key = "title" -> [absent |-> FALSE, text |-> toLowerCase(r.__title)]
      [] key = "year" -> [absent |-> r.__year = Null, n |-> r.__year]
      [] key = "your" -> [absent |-> r.__yourRating = Null, n |-> r.__yourRating]
      [] key = "imdb" -> [absent |-> r.__imdbRating = Null, n |-> r.__imdbRating]
      [] OTHER -> [absent |-> r.__dateRated = Null, n |-> r.__dateRated]

\* x comes strictly before y in ascending order, an absent value being
\* lower than any present one.
Below(x, y, key) ==
    IF key = "title" THEN TextLess(x.text, y.text)
    ELSE ~y.absent /\ (x.absent \/ x.n.v < y.n.v)

\* C17: the sorted collection is a permutation of the filtered one, in the
\* order of the sort key (titles without regard to case); records whose
\* key is null come first when ascending and last when descending.
C17_SortedPermutation ==
    fn = "sorted" =>
        /\ Len(res) = Len(arg.rows)
        /\ \A i \in 1..Len(res) : Count(res, res[i]) = Count(arg.rows, res[i])
        /\ \A i, j \in 1..Len(res) :
              i < j =>
                 LET x == SortValue(res[i], arg.key)
                     y == SortValue(res[j], arg.key)
                 IN  /\ arg.dir = "asc" => ~Below(y, x, arg.key)
                     /\ arg.dir = "desc" => ~Below(x, y, arg.key)
                     /\ (arg.dir = "asc" /\ y.absent) => x.absent
                     /\ (arg.dir = "desc" /\ x.absent) => y.absent

\* C17 witness: an ascending sort by year moves a record without a year
\* from the end of the collection to the front of two records with years.
C17_Witness ==
    /\ fn = "sorted" /\ arg.key = "year" /\ arg.dir = "asc"
    /\ Len(arg.rows) = 3
    /\ arg.rows[3].__year = Null /\ arg.rows[1].__year # Null /\ arg.rows[2].__year # Null
    /\ res[1] = arg.rows[3] /\ res[2].__year.v < res[3].__year.v

\* C17 witness: a descending sort by date keeps the record without a date
\* last.
C17_WitnessDescending ==
    /\ fn = "sorted" /\ arg.key = "date" /\ arg.dir = "desc"
    /\ Len(arg.rows) = 3
    /\ arg.rows[1].__dateRated = Null /\ res[3] = arg.rows[1]
    /\ res[1].__dateRated # Null /\ res[2].__dateRated # Null
    /\ res[1].__dateRated.v > res[2].__dateRated.v


\* C18: the exported file has the original source columns only: none of
\* the derived fields (__title, __genres, __yourRating, ...) is a column.
C18_SourceColumnsOnly ==
    fn = "export" =>
        /\ res \subseteq UNION {DOMAIN arg.rows[i].raw : i \in 1..Len(arg.rows)}
        /\ res \cap DerivedFields = {}

\* The export of a collection that is not empty has all the derived fields
\* as columns, besides the columns of its first row.
C18_DerivedColumnsExported ==
    (fn = "export" /\ filteredOf(arg.rows, arg.f) # <<>>) =>
        /\ DerivedFields \subseteq res
        /\ res \ DerivedFields = DOMAIN filteredOf(arg.rows, arg.f)[1].raw


\* C19: the persisted source URL is always the URL of the last fetch that
\* succeeded: it changes only in a step in which a fetch succeeds, so a
\* Save & Fetch whose fetch fails leaves it as it was.
C19_PersistedOnlyOnSuccess ==
    [][savedUrl' # savedUrl =>
          \E i \in 1..Len(loads), src \in UrlSources : FetchOk(i, src)]_vars

\* The persisted source URL changes in Save & Fetch, before the fetch has
\* an outcome, and in no other step.
C19_PersistedBySaveAndFetch ==
    [][savedUrl' # savedUrl => (saveAndFetch /\ savedUrl' = csvUrl)]_vars


\* The rows of a load that have a source id column.
WithId(raw) == {i \in 1..Len(raw) : Coalesce(raw[i], TconstKeys).def}

\* The source ids of a load are pairwise distinct.
DistinctSourceIds(raw) ==
    \A i, j \in WithId(raw) :
        i # j => Coalesce(raw[i], TconstKeys).s # Coalesce(raw[j], TconstKeys).s

\* C20: within one load the external ids of the canonical records are
\* pairwise distinct when the rows without a source id fall back to their
\* row index, also when only some rows have a source id.
C20_DistinctExternalIds ==
    (fn = "rows" /\ DistinctSourceIds(arg)) =>
        \A i, j \in 1..Len(res) : i # j => res[i].__tconst # res[j].__tconst

\* The external ids are pairwise distinct in a load in which every row or
\* no row has a source id.
C20_UnmixedDistinct ==
    (fn = "rows" /\ DistinctSourceIds(arg) /\ WithId(arg) \in {{}, 1..Len(arg)}) =>
        \A i, j \in 1..Len(res) : i # j => res[i].__tconst # res[j].__tconst

\* C21: when the filtered set is empty every aggregate is its sentinel:
\* count 0, both averages null, 0 hours, streak 0 and gap 0 with null start
\* and end, no disagreement, no top director, 7 day-of-week entries with
\* average 0 and count 0, 24 months with count 0, 10 histogram buckets
\* with count 0, and empty time-series, scatter, by-year and genre data.
C21_EmptySentinels ==
    (fn \in {"facts", "charts"} /\ filteredOf(arg.rows, arg.f) = <<>>) =>
        /\ fn = "facts" =>
              /\ res.n = 0 /\ res.avgYour = Null /\ res.avgImdb = Null
              /\ res.totalHours.num = 0 /\ res.totalHours.den # 0
              /\ res.streak = [len |-> 0, start |-> Null, end |-> Null]
              /\ res.gap = [days |-> 0, start |-> Null, end |-> Null]
              /\ ~res.disagree.def /\ ~res.topDirector.def
              /\ DOMAIN res.dowAvg = 1..7
              /\ \A d \in 1..7 : /\ res.dowAvg[d].avg.num = 0
                                 /\ res.dowAvg[d].avg.den # 0
                                 /\ res.dowAvg[d].n = 0
              /\ DOMAIN res.months = 1..24
              /\ \A k \in 1..24 : res.months[k].count = 0
        /\ fn = "charts" =>
              /\ DOMAIN res.ratingHistogram = 1..10
              /\ \A k \in 1..10 : res.ratingHistogram[k].count = 0
              /\ res.timeSeries = <<>> /\ res.yourVsImdb = <<>>
              /\ res.runtimeVsYour = <<>> /\ res.byYearAvg = <<>>
              /\ res.genreCounts = <<>>

\* C21 witness: the facts of a loaded file whose rows the filter all
\* rejects.
C21_Witness ==
    /\ fn = "facts" /\ Len(arg.rows) = MaxAggRows
    /\ filteredOf(arg.rows, arg.f) = <<>>
    /\ res.n = 0 /\ res.avgYour = Null

\* The aggregates of a set that is not empty: the facts count its records
\* and the averages are over the rated ones.
C21_WitnessRated ==
    /\ fn = "facts" /\ res.n = 2 /\ res.avgYour = Ratio(16 * Scale, 2)
    /\ res.avgImdb = Ratio(5 * Scale, 1) /\ res.totalHours = Ratio(90 * Scale, 60)

\* C22: a poster request that fails or returns no poster changes nothing
\* the user can see: the error message, the loaded rows, the filter, the
\* sort and the page are unchanged, the entries of the poster cache are
\* kept, and the identifier stays absent from the cache.
C22_FailedPosterSilent ==
    [][\A i \in 1..Len(posterReqs) :
          \A outcome \in [1..Len(posterReqs[i]) -> PosterOutcomes] :
             PosterDone(i, outcome) =>
                /\ UNCHANGED <<error, rawRows, rows, filtered, q, minYear, maxYear,
                               minYourRating, titleType, genreFilter, sortKey,
                               sortDir, pageSize, page>>
                /\ \A id \in DOMAIN posterCache :
                      id \in DOMAIN posterCache' /\ posterCache'[id] = posterCache[id]
                /\ \A k \in 1..Len(posterReqs[i]) :
                      (\A j \in 1..Len(posterReqs[i]) :
                          posterReqs[i][j] = posterReqs[i][k] => outcome[j] # "poster")
                         => (posterReqs[i][k] \in DOMAIN posterCache'
                               <=> posterReqs[i][k] \in DOMAIN posterCache)]_vars

\* C22 witness: every request has settled, a title that was requested has
\* no poster in the cache, another one has, and no error is shown.
C22_Witness ==
    /\ posterReqs = <<>> /\ error = ""
    /\ \E id \in DOMAIN requested : requested[id] > 0 /\ id \notin DOMAIN posterCache
    /\ DOMAIN posterCache # {}

\* The names of the Directors cells of rs in the order of the records, with
\* the rating of the record; of the rated records only when rated is TRUE.
RECURSIVE Mentions(_, _)
Mentions(rs, rated) ==
    IF rs = <<>> THEN <<>>
    ELSE (IF rated /\ rs[1].__yourRating.kind # "num" THEN <<>>
          ELSE LET ds == directorsOf(rs[1])
               IN  [k \in 1..Len(ds) |-> [name |-> ds[k], rating |-> rs[1].__yourRating]])
         \o Mentions(Tail(rs), rated)

\* The place of the first mention of the name d in ms.
FirstMention(ms, d) ==
    CHOOSE k \in 1..Len(ms) : ms[k].name = d /\ \A j \in 1..(k - 1) : ms[j].name # d

\* The directors of rs with 3 or more rated mentions whose average equals
\* that of the director reported.
TiedWith(rs, top) ==
    LET ms == Mentions(rs, TRUE)
        of(d) == SelectSeq(ms, LAMBDA x : x.name = d)
    IN  {d \in {ms[k].name : k \in 1..Len(ms)} :
            /\ Len(of(d)) >= 3
            /\ Sum([k \in 1..Len(of(d)) |-> of(d)[k].rating.v]) * top.n
                  = top.sum * Len(of(d))}

\* C23: among qualifying directors that share the highest average, the one
\* reported is the one whose name appears first in the filtered set,
\* counting every appearance, also one on a record without a rating.
C23_TieFirstAppearance ==
    (fn = "topDirector" /\ res.def) =>
        \A d \in TiedWith(arg, res) \ {res.director} :
            FirstMention(Mentions(arg, FALSE), res.director)
               < FirstMention(Mentions(arg, FALSE), d)

\* C23, amended: among qualifying directors that share the highest
\* average, the one reported is the one whose name appears first on a
\* record that has a rating.
C23_TieFirstRatedAppearance ==
    (fn = "topDirector" /\ res.def) =>
        /\ res.director \in TiedWith(arg, res)
        /\ \A d \in TiedWith(arg, res) \ {res.director} :
              FirstMention(Mentions(arg, TRUE), res.director)
                 < FirstMention(Mentions(arg, TRUE), d)

\* C23 witness: two directors qualify with the same average, and the one
\* reported is not the one named first in the set.
C23_Witness ==
    /\ fn = "topDirector" /\ res.def
    /\ TiedWith(arg, res) \ {res.director} # {}
    /\ Mentions(arg, FALSE)[1].name # res.director

\* C24: computing the rating histogram never fails: a record whose rating
\* is a fraction within [1, 10] is left out of every bucket, the other
\* records are counted, and the 10 buckets are returned.
C24_HistogramNeverFails ==
    fn = "ratingHistogram" =>
        /\ res # Threw
        /\ \A k \in 1..10 :
              res[k].count = Cardinality({i \in 1..Len(arg) : arg[i].__yourRating = Whole(k)})

\* The histogram fails exactly when a record has a fractional rating within
\* the range.
C24_FailsOnFraction ==
    fn = "ratingHistogram" =>
        (res = Threw <=>
            \E i \in 1..Len(arg) :
               /\ arg[i].__yourRating.kind = "num"
               /\ arg[i].__yourRating.v > Scale /\ arg[i].__yourRating.v < 10 * Scale
               /\ arg[i].__yourRating.v % Scale # 0)

\* C25: isLoading is true in every state in which a started CSV load has
\* neither completed nor failed, also when loads overlap and one of them
\* has finished, and it is false once all started loads have finished.
C25_LoadingWhileInFlight == isLoading <=> loads # <<>>

\* isLoading is false once no started load is in flight.
C25_IdleWhenNoneInFlight == loads = <<>> => ~isLoading

\* C26: when several loads are started one after another, the rows held
\* after all of them have completed are those of the load started last,
\* whatever the order in which the results arrive (stated for a last load
\* that is a file or a pasted text, whose rows are known from its source).
C26_LastStartedWins ==
    (loads = <<>> /\ lastStarted.kind \in {"file", "paste"} /\ lastStarted.src \in Sources)
        => rawRows = ParseResult(lastStarted.src).data

\* A step that issues a round of poster requests issues it for identifiers
\* of the page that are absent from the cache.
RoundIssued ==
    Len(posterReqs') > Len(posterReqs) =>
       LET round == posterReqs'[Len(posterReqs')]
       IN  /\ round # <<>>
           /\ \A k \in 1..Len(round) :
                 /\ round[k] \notin DOMAIN posterCache
                 /\ \E r \in 1..Len(pageRows) :
                       imdbIdFromUrl(pageRows[r].__url) = Def(round[k])

\* A round whose identifiers are all still absent from the cache when it
\* settles adds at least one of them to the cache, or leaves the cache as
\* it is and schedules no further run of the poster effect.
RoundSettled ==
    \A i \in 1..Len(posterReqs) :
       \A outcome \in [1..Len(posterReqs[i]) -> PosterOutcomes] :
          (/\ PosterDone(i, outcome)
           /\ \A k \in 1..Len(posterReqs[i]) : posterReqs[i][k] \notin DOMAIN posterCache)
             => \/ /\ DOMAIN posterCache' # DOMAIN posterCache
                   /\ DOMAIN posterCache \subseteq DOMAIN posterCache'
                   /\ DOMAIN posterCache' \subseteq
                         DOMAIN posterCache
                            \cup {posterReqs[i][k] : k \in 1..Len(posterReqs[i])}
                \/ posterCache' = posterCache /\ "posters" \notin pending'

\* C27: for a fixed page of rows the poster effect issues finitely many
\* rounds of requests: a round is issued only for identifiers of the page
\* that are absent from the cache, and every round either adds at least
\* one new identifier to the cache or is the last one, also when some
\* identifiers got no poster; and when the scheduled effects always get to
\* run, from some point on no round is in flight.
C27_PosterRoundsEnd ==
    /\ [][RoundIssued /\ RoundSettled]_vars
    /\ ([]<>(pending = {}) => <>[](posterReqs = <<>>))

\* C27 witness: the effect has stopped (no round in flight, no effect
\* scheduled) after it ran again for a title that got no poster while
\* another title got one.
C27_Witness ==
    /\ posterReqs = <<>> /\ pending = {}
    /\ DOMAIN posterCache # {}
    /\ \E id \in DOMAIN requested : requested[id] >= 3 /\ id \notin DOMAIN posterCache


\* The finite years among the canonical records.
FiniteYears == {rows[i].__year.v : i \in {j \in 1..Len(rows) : IsFinite(rows[j].__year)}}

\* The year range is the smallest and the largest finite year of the
\* records, or 1900 to 2100 when no record has a finite year.
YearRangeSpansData ==
    IF FiniteYears = {}
    THEN minYear = 1900 * Scale /\ maxYear = 2100 * Scale
    ELSE /\ minYear \in FiniteYears /\ maxYear \in FiniteYears
         /\ \A y \in FiniteYears : minYear <= y /\ y <= maxYear

\* The query, the minimum rating, the type and the genres stay as they are.
OtherFiltersKept ==
    <<q, minYourRating, titleType, genreFilter>>'
       = <<q, minYourRating, titleType, genreFilter>>

\* C28: a step that loads a data set leaves the query, the minimum rating,
\* the type and the genres as they were and schedules the year bounds
\* effect; the run of that effect sets minYear and maxYear to the smallest
\* and the largest finite year of the new records (1900 and 2100 when there
\* is none), whatever they were before, so that afterwards the year
\* dimension excludes no record, and it leaves the other filter values and
\* the records as they were.
C28_YearBoundsFollowLoad ==
    /\ [][("years" \in pending') => OtherFiltersKept]_vars
    /\ [][("years" \in pending) =>
             (RunEffects /\ rows' = rows /\ OtherFiltersKept)]_vars
    /\ []("years" \in ran =>
            (/\ YearRangeSpansData
             /\ \A i \in 1..Len(rows) : yearOk(rows[i], Filter)))

\* C28 witness: the year bounds effect has run on a loaded data set with
\* two different finite years while a query typed before the load is still
\* in place.
C28_Witness ==
    /\ "years" \in ran
    /\ Cardinality(FiniteYears) >= 2
    /\ minYear < maxYear
    /\ q # <<>>


\* A load completes: the complete callback of a file parse, a paste of CSV
\* text, or a fetch whose response text has been parsed.
LoadCompletes ==
    \/ \E i \in 1..Len(loads) : FileComplete(i)
    \/ \E t \in PasteTexts : onPaste(t)
    \/ \E i \in 1..Len(loads), src \in UrlSources : FetchOk(i, src)

\* A load fails: the error callback of a file parse or the catch of a fetch.
LoadFails ==
    \/ \E i \in 1..Len(loads) : FileError(i)
    \/ \E i \in 1..Len(loads) : FetchFail(i)

\* C29: every load that completes (file, paste or URL) sets the page to 1,
\* and a load that fails leaves the page unchanged.
C29_PageResetOnLoad ==
    /\ [][LoadCompletes => page' = 1]_vars
    /\ [][LoadFails => page' = page]_vars

\* C29 witness: a file load has failed while the table, loaded before, shows
\* a page after the first.
C29_Witness ==
    /\ error = ParseErrorText
    /\ lastStarted.kind = "file"
    /\ loads = <<>>
    /\ page > 1
    /\ Len(rows) > 0


\* The other direction.
Flipped(dir) == IF dir = "asc" THEN "desc" ELSE "asc"

\* What toggleSort(key) does to the sort state, the page and the rest.
ToggledBy(key) ==
    /\ IF sortKey = key
       THEN sortKey' = sortKey /\ sortDir' = Flipped(sortDir)
       ELSE sortKey' = key /\ sortDir' = (IF key = "date" THEN "desc" ELSE "asc")
    /\ page' = 1
    /\ rawRows' = rawRows /\ rows' = rows
    /\ Filter' = Filter
    /\ filtered' = filtered
    /\ pageSize' = pageSize

\* C30: the table starts sorted by date rated, descending; toggleSort(key)
\* flips the direction and keeps the key when key is the active sort key,
\* and otherwise makes key the active key, descending for date and
\* ascending for every other key; in both cases it sets the page to 1 and
\* leaves the loaded rows, the filters and the page size unchanged.
C30_ToggleSort ==
    /\ (sortKey = "date" /\ sortDir = "desc")
    /\ [][\A key \in SortKeys : toggleSort(key) => ToggledBy(key)]_vars

\* C30 witness: two clicks on a header other than the date have made it
\* the active key and then flipped its direction to descending, on page 1.
C30_Witness ==
    /\ sortKey \in SortKeys \ {"date"}
    /\ sortDir = "desc"
    /\ page = 1
    /\ events = 2
    /\ Len(rows) > 0

====
